---- MODULE Spec2Model ----
(***************************************************************************)
(* Model of the ventas-zambranos data pipeline: schema validation,         *)
(* numeric coercion, the aggregation engine and the app.py script that     *)
(* chains them (read -> validate -> coerce -> aggregate).                  *)
(*                                                                         *)
(* A text value is a sequence of symbols.  Digits are symbols of their     *)
(* own, so that parsing a number is computed from the text; a column,      *)
(* month or category name is one symbol.                                   *)
(***************************************************************************)
EXTENDS Integers, Sequences, FiniteSets, TLC

VARIABLES
    pc,            \* position of the running script or call
    source,        \* app.py: where the dataset came from
    df,            \* the caller's dataset object (the argument passed)
    numeric_cols,  \* coerce_numeric: the list of column names passed
    exc,           \* exception raised by the last call (NoExc when none)
    ret,           \* value returned by the last call
    dfn,           \* the coerced dataset (coerce_numeric's result)
    metricas,      \* resumen_metricas' result
    series,        \* series_temporales' result
    ran,           \* app.py: the pipeline steps executed so far
    df0,           \* the dataset as it was when it was handed over
    args,          \* the other arguments of the call under study
    calls,         \* the library calls the call under study has made, in order
    np_random,     \* state of the process-wide random generator (numpy.random)
    prev,          \* outcome of the previous invocation with the same arguments
    files,         \* the uploads directory: the content of each path in it
    locks,         \* the lock files: which call holds each
    handles,       \* the file each call has open for writing, and its offset
    session        \* st.session_state of the guided tour

vars ==
    <<pc, source, df, numeric_cols, exc, ret, dfn, metricas, series, ran, df0,
      args, calls, np_random, prev, files, locks, handles, session>>

\* the variables only the upload store and the guided tour use
stored == <<files, locks, handles, session>>

\* the variables only the ML adapters, the format reader, the upload store
\* and the guided tour use
others == <<args, calls, np_random, prev, stored>>

----------------------------------------------------------------------------
(* Bounds of the model *)

\* rows of a dataset handed to the aggregation engine
MaxRows == 2
\* rows of a dataset handed to coerce_numeric on its own
MaxLen == 3

----------------------------------------------------------------------------
(* Program constants *)

REQUIRED_COLUMNS ==
    <<"Mes", "Categoría", "Cantidad Vendida", "Ingreso Total", "ISV",
      "Utilidad Bruta">>

MESES_ORDEN ==
    <<"Enero", "Febrero", "Marzo", "Abril", "Mayo", "Junio",
      "Julio", "Agosto", "Septiembre", "Octubre", "Noviembre", "Diciembre">>

VARIABLES_NUM ==
    <<"Cantidad Vendida", "Precio Unitario", "Ingreso Total", "Costo Unitario",
      "Costo Total", "Utilidad Bruta", "ISV", "Ingreso Neto">>

\* The second column name written in tests/test_io_utils.py (its bytes are
\* "Categor" U+221A U+2260 "a", not "Categoría").
TEST_OK_CATEGORIA == "Categor<U+221A><U+2260>a"

Range(s) == {s[i] : i \in DOMAIN s}

----------------------------------------------------------------------------
(* Cells, datasets, exceptions *)

None == [t |-> "None"]

Num(k) == [t |-> "num", n |-> k, s |-> <<>>]
Str(x) == [t |-> "str", n |-> 0, s |-> x]
NaN == [t |-> "nan", n |-> 0, s |-> <<>>]

IsNum(c) == c.t = "num"
IsNaN(c) == c.t = "nan"

\* A dataset maps each column name to its cells; all columns have one length.
Columns(d) == DOMAIN d

NRows(d) == IF Columns(d) = {} THEN 0 ELSE Len(d[CHOOSE c \in Columns(d) : TRUE])

NoExc == [type |-> "None", message |-> <<>>, detail |-> <<>>, args |-> <<>>]

\* The dataclass-generated __init__ sets message and detail and does not call
\* Exception.__init__; both are passed by keyword, so args stays empty.
ValidationError(message, detail) ==
    [type |-> "ValidationError", message |-> message, detail |-> detail,
     args |-> <<>>]

KeyError(key) ==
    [type |-> "KeyError", message |-> <<key>>, detail |-> <<>>, args |-> <<key>>]

Raised(r) == r.exc.type # "None"

----------------------------------------------------------------------------
(* Text helpers *)

RECURSIVE Join(_, _)
\* sep.join(names)
Join(names, sep) ==
    IF names = <<>> THEN <<>>
    ELSE IF Len(names) = 1 THEN <<names[1]>>
    ELSE <<names[1], sep>> \o Join(Tail(names), sep)

RECURSIVE ListRepr(_)
\* the items of repr(list of str): each name quoted, ", " between them
ListRepr(names) ==
    IF names = <<>> THEN <<>>
    ELSE IF Len(names) = 1 THEN <<"'", names[1], "'">>
    ELSE <<"'", names[1], "'", ", ">> \o ListRepr(Tail(names))

----------------------------------------------------------------------------
(* io_utils.validate_schema *)

MissingFirstOnly(d) ==
    LET m == SelectSeq(REQUIRED_COLUMNS, LAMBDA c : c \notin Columns(d))
    IN  IF m = <<>> THEN <<>> ELSE <<m[1]>>

\* missing = [c for c in REQUIRED_COLUMNS if c not in df.columns]
MissingColumns(d) == SelectSeq(REQUIRED_COLUMNS, LAMBDA c : c \notin Columns(d))

validate_schema(d) ==
    LET missing == MissingColumns(d)
    IN  IF missing # <<>>
        THEN [exc |-> ValidationError(
                        <<"Faltan columnas requeridas: ">> \o Join(missing, ", "),
                        <<"Requeridas: ", "[">> \o ListRepr(REQUIRED_COLUMNS)
                            \o <<"]">>),
              ret |-> None, arg |-> d]
        ELSE [exc |-> NoExc, ret |-> None, arg |-> d]

----------------------------------------------------------------------------
(* io_utils.coerce_numeric *)

DigitValue ==
    [x \in {"0", "1", "2", "3", "4", "5", "6", "7", "8", "9"} |->
        CASE x = "0" -> 0 [] x = "1" -> 1 [] x = "2" -> 2 [] x = "3" -> 3
          [] x = "4" -> 4 [] x = "5" -> 5 [] x = "6" -> 6 [] x = "7" -> 7
          [] x = "8" -> 8 [] x = "9" -> 9]

\* the text is a non-empty run of decimal digits
IsNumericText(s) == s # <<>> /\ \A i \in DOMAIN s : s[i] \in DOMAIN DigitValue

RECURSIVE ParseDigits(_)
ParseDigits(s) ==
    IF s = <<>> THEN 0
    ELSE 10 * ParseDigits(SubSeq(s, 1, Len(s) - 1)) + DigitValue[s[Len(s)]]

\* a to_numeric that only converts text: a number it is handed is not text
\* and comes out as the missing-value marker
to_numeric_text_only(c) ==
    IF c.t = "str" /\ IsNumericText(c.s) THEN Num(ParseDigits(c.s)) ELSE NaN

\* a to_numeric that leaves what it cannot parse in place (errors="ignore")
to_numeric_ignore(c) ==
    IF c.t = "str" /\ IsNumericText(c.s) THEN Num(ParseDigits(c.s)) ELSE c

\* pd.to_numeric(..., errors="coerce") on one value
to_numeric(c) ==
    IF c.t = "num" THEN c
    ELSE IF c.t = "str" /\ IsNumericText(c.s) THEN Num(ParseDigits(c.s))
    ELSE NaN

RECURSIVE CoerceLoop(_, _)
\* for c in numeric_cols: if c in dfn.columns: dfn[c] = pd.to_numeric(dfn[c], ...)
CoerceLoop(d, cols) ==
    IF cols = <<>> THEN d
    ELSE LET c == Head(cols)
             d2 == IF c \in Columns(d)
                   THEN [d EXCEPT ![c] = [i \in 1..Len(d[c]) |-> to_numeric(d[c][i])]]
                   ELSE d
         IN  CoerceLoop(d2, Tail(cols))

\* a coerce_numeric that converts the caller's dataset in place (no df.copy())
coerce_numeric_inplace(d, cols) ==
    [exc |-> NoExc, ret |-> CoerceLoop(d, cols), arg |-> CoerceLoop(d, cols)]

\* ret is the new dataset, arg the caller's dataset after the call
coerce_numeric(d, cols) ==
    [exc |-> NoExc, ret |-> CoerceLoop(d, cols), arg |-> d]

----------------------------------------------------------------------------
(* processing: the aggregation engine *)

\* A float result: n / d, or the missing value.
Float(n, d) == [t |-> "num", n |-> n, d |-> d]
FloatNaN == [t |-> "nan", n |-> 0, d |-> 1]

TypeError == [type |-> "TypeError", message |-> <<>>, detail |-> <<>>, args |-> <<>>]

RECURSIVE Total(_)
\* the sum of the numbers among the cells, missing values skipped
Total(cells) ==
    IF cells = <<>> THEN 0
    ELSE (IF IsNum(Head(cells)) THEN Head(cells).n ELSE 0) + Total(Tail(cells))

Valid(cells) == SelectSeq(cells, LAMBDA c : ~IsNaN(c))

\* a sum that is missing when no value is present (min_count=1)
SeriesSumMinCount(cells) ==
    IF Valid(cells) = <<>> THEN FloatNaN ELSE Float(Total(cells), 1)

\* Series.sum(): skipna, and 0 when nothing is left to add
SeriesSum(cells) == Float(Total(cells), 1)

\* a mean over all rows, the missing ones counted as rows
SeriesMeanAllRows(cells) ==
    IF cells = <<>> THEN FloatNaN ELSE Float(Total(cells), Len(cells))

\* Series.mean(): skipna, and missing when nothing is left
SeriesMean(cells) ==
    IF Valid(cells) = <<>> THEN FloatNaN ELSE Float(Total(cells), Len(Valid(cells)))

\* Series.nunique(): distinct values, missing values not counted
NUnique(cells) == Cardinality({c \in Range(cells) : ~IsNaN(c)})

\* text cells cannot be summed into a float
Summable(cells) == \A i \in DOMAIN cells : cells[i].t # "str"

\* the columns in the order the dict literal reads them
ResumenReads ==
    <<"Ingreso Total", "ISV", "Utilidad Bruta", "Cantidad Vendida", "Categoría",
      "Mes">>

resumen_metricas(d) ==
    LET absent == SelectSeq(ResumenReads, LAMBDA c : c \notin Columns(d))
        summed == <<"Ingreso Total", "ISV", "Utilidad Bruta", "Cantidad Vendida">>
    IN  IF absent # <<>> THEN [exc |-> KeyError(absent[1]), ret |-> None]
        ELSE IF \E i \in DOMAIN summed : ~Summable(d[summed[i]])
        THEN [exc |-> TypeError, ret |-> None]
        ELSE [exc |-> NoExc,
              ret |-> [total_ingresos |-> SeriesSum(d["Ingreso Total"]),
                       total_isv |-> SeriesSum(d["ISV"]),
                       utilidad_promedio |-> SeriesMean(d["Utilidad Bruta"]),
                       total_ventas |-> SeriesSum(d["Cantidad Vendida"]),
                       categorias_unicas |-> NUnique(d["Categoría"]),
                       meses_activos |-> NUnique(d["Mes"])]]

\* a grouping that keeps the first row of each group only
GroupCellsFirst(d, key, col, k) ==
    LET rows == SelectSeq([i \in 1..Len(d[key]) |-> i], LAMBDA i : d[key][i] = k)
    IN  <<d[col][rows[1]]>>

\* the cells of column col in the rows whose key cell is k
GroupCells(d, key, col, k) ==
    LET rows == SelectSeq([i \in 1..Len(d[key]) |-> i], LAMBDA i : d[key][i] = k)
    IN  [j \in 1..Len(rows) |-> d[col][rows[j]]]

\* df.groupby(key)[col].sum(): one entry per distinct non-missing key
GroupBySum(d, key, col) ==
    [k \in {c \in Range(d[key]) : ~IsNaN(c)} |-> SeriesSum(GroupCells(d, key, col, k))]

\* a reindex that keeps only the labels present, in the order of index
ReindexDropAbsent(grouped, index) ==
    LET present == SelectSeq(index, LAMBDA m : Str(<<m>>) \in DOMAIN grouped)
    IN  [index |-> present,
         values |-> [i \in 1..Len(present) |-> grouped[Str(<<present[i]>>)]]]

\* Series.reindex(index): the labels of index in that order, missing where the
\* series has no such label; labels of the series outside index are dropped
Reindex(grouped, index) ==
    [index |-> index,
     values |-> [i \in 1..Len(index) |->
                    IF Str(<<index[i]>>) \in DOMAIN grouped
                    THEN grouped[Str(<<index[i]>>)] ELSE FloatNaN]]

series_temporales(d) ==
    IF "Mes" \notin Columns(d) THEN [exc |-> KeyError("Mes"), ret |-> None]
    ELSE IF "Ingreso Total" \notin Columns(d)
    THEN [exc |-> KeyError("Ingreso Total"), ret |-> None]
    ELSE IF "ISV" \notin Columns(d) THEN [exc |-> KeyError("ISV"), ret |-> None]
    ELSE [exc |-> NoExc,
          ret |-> [ingresos |-> Reindex(GroupBySum(d, "Mes", "Ingreso Total"),
                                        MESES_ORDEN),
                   isv |-> Reindex(GroupBySum(d, "Mes", "ISV"), MESES_ORDEN)]]

----------------------------------------------------------------------------
(* app.py: the wrappers the script calls *)

\* str(e): the text of the single argument, empty when args is empty
StrOfException(e) == IF e.args = <<>> THEN <<>> ELSE e.args[1]

\* text.replace(old, ""), old being one symbol
Remove(text, old) == SelectSeq(text, LAMBDA x : x # old)

RECURSIVE Split(_, _)
\* text.split(sep): the pieces between the separators
Split(text, sep) ==
    IF \A i \in DOMAIN text : text[i] # sep THEN <<text>>
    ELSE LET i == CHOOSE i \in DOMAIN text :
                      text[i] = sep /\ \A j \in 1..(i - 1) : text[j] # sep
         IN  <<SubSeq(text, 1, i - 1)>> \o Split(SubSeq(text, i + 1, Len(text)), sep)

\* a validar_columnas that reports the schema valid whatever validate_schema did
validar_columnas_waive(d) == <<TRUE, {}>>

validar_columnas(d) ==
    LET r == validate_schema(d)
    IN  IF ~Raised(r) THEN <<TRUE, {}>>
        ELSE LET text == StrOfException(r.exc)
             IN  <<FALSE,
                   IF text # <<>>
                   THEN Range(Split(Remove(text, "Faltan columnas requeridas: "), ", "))
                   ELSE {}>>

EmptyDict == [k \in {} |-> 0]

\* a wrapper without the try block: what resumen_metricas raised is passed on
calcular_metricas_resumen_unguarded(d) == resumen_metricas(d).ret

calcular_metricas_resumen(d) ==
    LET r == resumen_metricas(d)
    IN  IF Raised(r) THEN EmptyDict ELSE r.ret

\* What reading a source gave: a dataset, or nothing.
Some(d) == [some |-> TRUE, v |-> d]
Nothing == [some |-> FALSE, v |-> <<>>]

\* load_dataframe(file, file_name, delimiter_choice): read is what
\* safe_read_dataframe gives for the file (Nothing when it raises), local what
\* load_local_fallback gives.
load_dataframe(hasFile, ext, read, local) ==
    IF hasFile /\ ext \in {"csv", "xlsx", "xls"}
    THEN IF read.some THEN [df |-> read, origin |-> "file_name"]
         ELSE [df |-> Nothing, origin |-> ""]
    ELSE IF local.some THEN [df |-> local, origin |-> "datosExcel"]
    ELSE [df |-> Nothing, origin |-> ""]

----------------------------------------------------------------------------
(* Inputs *)

\* the row of tests/test_io_utils.py::test_validate_schema_ok, and a price
SampleCell(c) ==
    CASE c = "Mes" -> Str(<<"Enero">>)
      [] c = "mes" -> Str(<<"Enero">>)
      [] c = "Categoría" -> Str(<<"A">>)
      [] c = TEST_OK_CATEGORIA -> Str(<<"A">>)
      [] c = "Cantidad Vendida" -> Num(1)
      [] c = "Ingreso Total" -> Num(10)
      [] c = "ISV" -> Num(2)
      [] c = "Utilidad Bruta" -> Num(3)
      [] OTHER -> Num(10)

OneRow(cols) == [c \in cols |-> <<SampleCell(c)>>]

\* the required names, one more numeric column, and two names that differ from
\* a required one in case or in encoding
SchemaColumns ==
    Range(REQUIRED_COLUMNS) \cup {"Precio Unitario", "mes", TEST_OK_CATEGORIA}

SchemaDatasets == {OneRow(S) : S \in SUBSET SchemaColumns}

\* the dataset test_validate_schema_ok builds
TestOkDataset ==
    OneRow({"Mes", TEST_OK_CATEGORIA, "Cantidad Vendida", "Ingreso Total", "ISV",
            "Utilidad Bruta"})

\* cells of a column handed to coerce_numeric: numeric text, other text, mixed
\* text, a number, a missing value
CoerceCellsX ==
    {Str(<<"1">>), Str(<<"a">>), Str(<<"3">>), Str(<<"1", "a">>), Num(1), NaN}

CoerceCellsY == {Str(<<"b">>), Str(<<"2">>)}

\* the datasets of at most maxLen rows with column x, or columns x and y
CoerceDatasets(maxLen) ==
    UNION {{[x |-> xs] : xs \in [1..n -> CoerceCellsX]}
           \cup {[x |-> xs, y |-> ys] :
                    xs \in [1..n -> CoerceCellsX], ys \in [1..n -> CoerceCellsY]}
           : n \in 0..maxLen}

\* "z" names no column of these datasets
CoerceColLists == {<<>>, <<"x">>, <<"z", "x">>, <<"x", "y">>}

\* the dataset of tests/test_io_utils.py::test_coerce_numeric
TestCoerceDataset == [x |-> <<Str(<<"1">>), Str(<<"a">>), Str(<<"3">>)>>]

\* A sales row: month, category, quantity level q (10 q units, 100 q revenue,
\* 15 q tax, 30 q profit) and the numeric columns whose cell holds text that
\* is no number.
NumericRequired == {"Cantidad Vendida", "Ingreso Total", "ISV", "Utilidad Bruta"}

AggRows ==
    [mes : {Str(<<"Enero">>), Str(<<"Febrero">>), Str(<<"enero">>), NaN},
     cat : {Str(<<"A">>), Str(<<"B">>)},
     q : {1, 2},
     bad : {{}, {"Ingreso Total"}, NumericRequired}]

RowCell(r, c) ==
    CASE c = "Mes" -> r.mes
      [] c = "Categoría" -> r.cat
      [] c \in r.bad -> Str(<<"N/A">>)
      [] c = "Cantidad Vendida" -> Num(10 * r.q)
      [] c = "Ingreso Total" -> Num(100 * r.q)
      [] c = "ISV" -> Num(15 * r.q)
      [] OTHER -> Num(30 * r.q)

FromRows(rows) ==
    [c \in Range(REQUIRED_COLUMNS) |-> [i \in 1..Len(rows) |-> RowCell(rows[i], c)]]

\* the sales datasets of at most maxRows rows
AggDatasets(maxRows) ==
    {FromRows(rs) : rs \in UNION {[1..n -> AggRows] : n \in 0..maxRows}}

\* rows {Enero, A, 10, 100, 15, 30} and {Febrero, B, 20, 200, 30, 60}
ScenarioDataset ==
    FromRows(<<[mes |-> Str(<<"Enero">>), cat |-> Str(<<"A">>), q |-> 1, bad |-> {}],
               [mes |-> Str(<<"Febrero">>), cat |-> Str(<<"B">>), q |-> 2, bad |-> {}]>>)

----------------------------------------------------------------------------
(* validate_schema called on its own *)

InitSchema ==
    /\ pc = "input"
    /\ df \in SchemaDatasets
    /\ df0 = df
    /\ source = None /\ numeric_cols = <<>> /\ exc = NoExc /\ ret = None
    /\ dfn = None /\ metricas = None /\ series = None /\ ran = {}
    /\ args = None /\ calls = <<>> /\ np_random = 0 /\ prev = None
    /\ files = None /\ locks = None /\ handles = None /\ session = None

CallValidateSchema ==
    /\ pc = "input"
    /\ LET r == validate_schema(df)
       IN  /\ exc' = r.exc
           /\ ret' = r.ret
           /\ df' = r.arg
    /\ pc' = "returned"
    /\ UNCHANGED <<source, numeric_cols, dfn, metricas, series, ran, df0, others>>

NextSchema == CallValidateSchema

SpecSchema == InitSchema /\ [][NextSchema]_vars

----------------------------------------------------------------------------
(* coerce_numeric called on its own, then on its own result *)

InitCoerce ==
    /\ pc = "input"
    /\ df \in CoerceDatasets(MaxLen)
    /\ df0 = df
    /\ numeric_cols \in CoerceColLists
    /\ source = None /\ exc = NoExc /\ ret = None
    /\ dfn = None /\ metricas = None /\ series = None /\ ran = {}
    /\ args = None /\ calls = <<>> /\ np_random = 0 /\ prev = None
    /\ files = None /\ locks = None /\ handles = None /\ session = None

CallCoerce ==
    /\ pc = "input"
    /\ LET r == coerce_numeric(df, numeric_cols)
       IN  /\ exc' = r.exc
           /\ dfn' = r.ret
           /\ df' = r.arg
    /\ pc' = "once"
    /\ UNCHANGED <<source, numeric_cols, ret, metricas, series, ran, df0, others>>

CallCoerceAgain ==
    /\ pc = "once"
    /\ LET r == coerce_numeric(dfn, numeric_cols)
       IN  /\ exc' = r.exc
           /\ ret' = r.ret
    /\ pc' = "twice"
    /\ UNCHANGED <<source, df, numeric_cols, dfn, metricas, series, ran, df0, others>>

NextCoerce == CallCoerce \/ CallCoerceAgain

SpecCoerce == InitCoerce /\ [][NextCoerce]_vars

----------------------------------------------------------------------------
(* the aggregation engine on a validated, coerced dataset *)

InitAggregation ==
    /\ pc = "input"
    /\ df \in AggDatasets(MaxRows)
    /\ df0 = df
    /\ source = None /\ numeric_cols = VARIABLES_NUM /\ exc = NoExc /\ ret = None
    /\ dfn = None /\ metricas = None /\ series = None /\ ran = {}
    /\ args = None /\ calls = <<>> /\ np_random = 0 /\ prev = None
    /\ files = None /\ locks = None /\ handles = None /\ session = None

AggCoerce ==
    /\ pc = "input"
    /\ ~Raised(validate_schema(df))
    /\ dfn' = coerce_numeric(df, numeric_cols).ret
    /\ pc' = "coerced"
    /\ UNCHANGED <<source, df, numeric_cols, exc, ret, metricas, series, ran, df0, others>>

AggResumen ==
    /\ pc = "coerced"
    /\ LET r == resumen_metricas(dfn)
       IN  /\ exc' = r.exc
           /\ metricas' = r.ret
    /\ pc' = "summarised"
    /\ UNCHANGED <<source, df, numeric_cols, ret, dfn, series, ran, df0, others>>

AggSeries ==
    /\ pc = "summarised"
    /\ ~Raised([exc |-> exc])
    /\ LET r == series_temporales(dfn)
       IN  /\ exc' = r.exc
           /\ series' = r.ret
    /\ pc' = "aggregated"
    /\ UNCHANGED <<source, df, numeric_cols, ret, dfn, metricas, ran, df0, others>>

NextAggregation == AggCoerce \/ AggResumen \/ AggSeries

SpecAggregation == InitAggregation /\ [][NextAggregation]_vars

----------------------------------------------------------------------------
(* app.py: the script from the data load to the summary metrics *)

\* what the local fallback may hold: nothing, a valid file, a file without ISV
LocalFallbacks ==
    {Nothing, Some(OneRow(Range(REQUIRED_COLUMNS))),
     Some(OneRow(Range(REQUIRED_COLUMNS) \ {"ISV"}))}

\* the uploader accepts csv, xlsx and xls; the uploads directory may hold more
Sources ==
    [kind : {"uploaded"}, ext : {"csv", "xlsx", "xls"}]
    \cup [kind : {"recent"}, ext : {"csv", "xlsx", "xls", "tmp"}]
    \cup [kind : {"none"}, ext : {""}]

InitPipeline ==
    /\ pc = "start"
    /\ source = None /\ df = <<>> /\ df0 = <<>>
    /\ numeric_cols = VARIABLES_NUM /\ exc = NoExc /\ ret = None
    /\ dfn = None /\ metricas = None /\ series = None /\ ran = {}
    /\ args = None /\ calls = <<>> /\ np_random = 0 /\ prev = None
    /\ files = None /\ locks = None /\ handles = None /\ session = None

\* _df, origen = load_dataframe(uploaded, uploaded.name if uploaded else None, ...);
\* args keeps what reading the file and the local fallback had to give
Load ==
    /\ pc = "start"
    /\ \E src \in Sources, read \in {Nothing} \cup {Some(d) : d \in SchemaDatasets},
          local \in LocalFallbacks :
          LET r == load_dataframe(src.kind # "none", src.ext, read, local)
          IN  /\ source' = src
              /\ ret' = r.df
              /\ df' = r.df.v
              /\ df0' = r.df.v
              /\ args' = [read |-> read, local |-> local, origin |-> r.origin]
    /\ ran' = ran \cup {"read"}
    /\ pc' = "loaded"
    /\ UNCHANGED <<numeric_cols, exc, dfn, metricas, series, calls, np_random, prev,
                   stored>>

\* if _df is None: ... st.stop()
StopNoData ==
    /\ pc = "loaded"
    /\ ~ret.some
    /\ pc' = "stopped"
    /\ UNCHANGED <<source, df, numeric_cols, exc, ret, dfn, metricas, series, ran, df0, others>>

\* ok, cols_faltantes = validar_columnas(_df); if not ok: ... st.stop()
Validate ==
    /\ pc = "loaded"
    /\ ret.some
    /\ LET r == validar_columnas(df)
       IN  /\ ret' = r
           /\ pc' = IF r[1] THEN "validated" ELSE "stopped"
    /\ ran' = ran \cup {"validate"}
    /\ UNCHANGED <<source, df, numeric_cols, exc, dfn, metricas, series, df0, others>>

\* _df_num = safe_coerce_numeric(_df.copy(), VARIABLES_NUM)
Coerce ==
    /\ pc = "validated"
    /\ dfn' = coerce_numeric(df, numeric_cols).ret
    /\ ran' = ran \cup {"coerce_numeric"}
    /\ pc' = "coerced"
    /\ UNCHANGED <<source, df, numeric_cols, exc, ret, metricas, series, df0, others>>

\* metricas = calcular_metricas_resumen(_df_num)
Metricas ==
    /\ pc = "coerced"
    /\ metricas' = calcular_metricas_resumen(dfn)
    /\ ran' = ran \cup {"resumen_metricas"}
    /\ pc' = "done"
    /\ UNCHANGED <<source, df, numeric_cols, exc, ret, dfn, series, df0, others>>

NextPipeline == Load \/ StopNoData \/ Validate \/ Coerce \/ Metricas

SpecPipeline == InitPipeline /\ [][NextPipeline]_vars

----------------------------------------------------------------------------
(* Properties: schema validation *)

Required == Range(REQUIRED_COLUMNS)

PositionIn(seq, x) == CHOOSE i \in DOMAIN seq : seq[i] = x

\* C1: when the dataset lacks a required column, validate_schema raises a
\* ValidationError; its message is the fixed prefix followed by the missing
\* names and nothing else, comma-joined, each missing name once, no present
\* name, in REQUIRED_COLUMNS order; its detail carries all six required names.
C1_MissingColumnsListed ==
    (pc = "returned" /\ ~(Required \subseteq Columns(df0))) =>
        /\ exc.type = "ValidationError"
        /\ exc.message # <<>>
        /\ Head(exc.message) = "Faltan columnas requeridas: "
        /\ LET pieces == Split(Tail(exc.message), ", ")
           IN  /\ \A i \in DOMAIN pieces : Len(pieces[i]) = 1
               /\ {pieces[i][1] : i \in DOMAIN pieces} = Required \ Columns(df0)
               /\ Len(pieces) = Cardinality(Required \ Columns(df0))
               /\ \A i, j \in DOMAIN pieces :
                      i < j => PositionIn(REQUIRED_COLUMNS, pieces[i][1])
                                   < PositionIn(REQUIRED_COLUMNS, pieces[j][1])
        /\ Head(exc.detail) = "Requeridas: "
        /\ SelectSeq(exc.detail, LAMBDA x : x \in Required) = REQUIRED_COLUMNS

\* a dataset with some required columns present and at least two missing was
\* rejected
C1_Witness ==
    /\ pc = "returned"
    /\ exc.type = "ValidationError"
    /\ Cardinality(Required \ Columns(df0)) >= 2
    /\ Cardinality(Required \cap Columns(df0)) >= 2
    /\ Columns(df0) \ Required # {}

\* C2: a dataset holding all six required columns, whatever else it holds,
\* passes: no exception, nothing returned, the dataset as it was; and the
\* dataset test_validate_schema_ok builds passes without an exception.
C2_SupersetPasses ==
    pc = "returned" =>
        /\ (Required \subseteq Columns(df0)) =>
               (exc = NoExc /\ ret = None /\ df = df0)
        /\ (df0 = TestOkDataset) => exc = NoExc

\* the part of C2 about datasets that do hold the six required names
C2_RequiredPresentPasses ==
    (pc = "returned" /\ Required \subseteq Columns(df0)) =>
        (exc = NoExc /\ ret = None /\ df = df0)

\* the dataset of test_validate_schema_ok was validated
C2_TestDatasetValidated == pc = "returned" /\ df0 = TestOkDataset

----------------------------------------------------------------------------
(* Properties: the app.py script *)

\* C3: coerce_numeric and resumen_metricas run only on a dataset that holds
\* every required column: a run whose dataset fails validation, or has no
\* dataset, stops before them, whatever the source.
C3_NoAnalysisAfterFailedValidation ==
    /\ (pc \in {"validated", "coerced", "done"}
            \/ ran \cap {"coerce_numeric", "resumen_metricas"} # {})
           => (Required \subseteq Columns(df) /\ "validate" \in ran)
    /\ (pc = "stopped") => ran \cap {"coerce_numeric", "resumen_metricas"} = {}

\* a recent file without ISV was read, failed validation, and the run stopped
C3_Witness ==
    /\ pc = "stopped"
    /\ source.kind = "recent"
    /\ "validate" \in ran
    /\ Required \ Columns(df) = {"ISV"}

----------------------------------------------------------------------------
(* Properties: numeric coercion *)

\* C4: coercing the result of coerce_numeric again, with the same column
\* list, gives that result back.
C4_CoerceIdempotent == pc = "twice" => (exc = NoExc /\ ret = dfn)

\* the first coercion turned numeric text into a number and other text into a
\* missing value, and the second call has returned
C4_Witness ==
    /\ pc = "twice"
    /\ "x" \in Range(numeric_cols)
    /\ \E i, j \in DOMAIN df0.x :
           /\ df0.x[i] = Str(<<"3">>) /\ dfn.x[i] = Num(3)
           /\ df0.x[j] = Str(<<"a">>) /\ dfn.x[j] = NaN

\* the value a cell stands for, when it stands for a number
Parses(c) == c.t = "num" \/ (c.t = "str" /\ IsNumericText(c.s))

\* C5: coerce_numeric does not raise; in each named column that exists a cell
\* that parses as a number holds that number and every other cell holds the
\* missing value, so the missing values of the result are the unparsable and
\* already-missing inputs; ['1', 'a', '3'] gives 1, missing, 3.
C5_UnparsableBecomesMissing ==
    pc = "once" =>
        /\ exc = NoExc
        /\ \A c \in Range(numeric_cols) \cap Columns(df0) :
               /\ Len(dfn[c]) = Len(df0[c])
               /\ \A i \in DOMAIN df0[c] :
                      /\ df0[c][i].t = "num" => dfn[c][i] = df0[c][i]
                      /\ df0[c][i] = Str(<<"1">>) => dfn[c][i] = Num(1)
                      /\ df0[c][i] = Str(<<"2">>) => dfn[c][i] = Num(2)
                      /\ df0[c][i] = Str(<<"3">>) => dfn[c][i] = Num(3)
                      /\ ~Parses(df0[c][i]) <=> IsNaN(dfn[c][i])
               /\ Cardinality({i \in DOMAIN dfn[c] : IsNaN(dfn[c][i])})
                      = Cardinality({i \in DOMAIN df0[c] : ~Parses(df0[c][i])})
        /\ (df0 = TestCoerceDataset /\ numeric_cols = <<"x">>) =>
               /\ dfn.x = <<Num(1), NaN, Num(3)>>
               /\ Cardinality({i \in DOMAIN dfn.x : IsNaN(dfn.x[i])}) = 1

\* the column of test_coerce_numeric was coerced
C5_Witness ==
    /\ pc = "once"
    /\ df0 = TestCoerceDataset
    /\ numeric_cols = <<"x">>
    /\ dfn.x[2] = NaN

\* C6: coerce_numeric leaves the caller's dataset as it was, leaves every
\* column it was not asked to convert as it was in the result, and skips the
\* names that are no column: the result has the columns of the input.
C6_CoerceFrame ==
    pc = "once" =>
        /\ df = df0
        /\ exc = NoExc
        /\ Columns(dfn) = Columns(df0)
        /\ \A c \in Columns(df0) \ Range(numeric_cols) : dfn[c] = df0[c]

\* a call naming the absent column "z" changed x and left y, which holds
\* numeric text, alone
C6_Witness ==
    /\ pc = "once"
    /\ numeric_cols = <<"z", "x">>
    /\ "y" \in Columns(df0)
    /\ \E i \in DOMAIN df0.y : df0.y[i] = Str(<<"2">>)
    /\ dfn.x # df0.x
    /\ dfn.y = df0.y

----------------------------------------------------------------------------
(* Properties: the aggregation engine *)

RECURSIVE SumRows(_, _, _)
\* the sum of column col over the rows in the set rows, missing values skipped
SumRows(d, col, rows) ==
    IF rows = {} THEN 0
    ELSE LET i == CHOOSE i \in rows : TRUE
         IN  (IF IsNum(d[col][i]) THEN d[col][i].n ELSE 0)
                 + SumRows(d, col, rows \ {i})

RowsOf(d) == 1..NRows(d)

\* the sum of a series over its entries, missing entries skipped
SeriesTotal(sr) ==
    SumRows([v |-> sr.values], "v", {i \in DOMAIN sr.values : IsNum(sr.values[i])})

CanonicalMonths == {Str(<<MESES_ORDEN[i]>>) : i \in DOMAIN MESES_ORDEN}

AllMonthsCanonical(d) == \A i \in RowsOf(d) : d["Mes"][i] \in CanonicalMonths

\* C7 as stated: for every validated, coerced dataset total_ingresos equals the
\* 'ingresos' series summed over the twelve months, and total_isv the 'isv'
\* series.
C7_TotalsEqualSeries ==
    pc = "aggregated" =>
        /\ metricas.total_ingresos = Float(SeriesTotal(series.ingresos), 1)
        /\ metricas.total_isv = Float(SeriesTotal(series.isv), 1)

\* C7, amended: the same for every validated, coerced dataset whose Mes values
\* are all canonical month names.
C7_TotalsEqualSeriesCanonical ==
    (pc = "aggregated" /\ AllMonthsCanonical(dfn)) =>
        /\ metricas.total_ingresos = Float(SeriesTotal(series.ingresos), 1)
        /\ metricas.total_isv = Float(SeriesTotal(series.isv), 1)

\* two rows of the same canonical month, both with revenue, were aggregated
C7_Witness ==
    /\ pc = "aggregated"
    /\ NRows(dfn) = 2
    /\ AllMonthsCanonical(dfn)
    /\ dfn["Mes"][1] = dfn["Mes"][2]
    /\ IsNum(dfn["Ingreso Total"][1]) /\ IsNum(dfn["Ingreso Total"][2])
    /\ metricas.total_ingresos.n > 100

Reversed(d) == [c \in Columns(d) |-> [i \in 1..Len(d[c]) |-> d[c][Len(d[c]) + 1 - i]]]

\* C8: both series have the twelve months of MESES_ORDEN as their keys, in
\* that order; a month without rows holds the missing value, a month with rows
\* the sum of its rows; the rows in reverse order give the same series.
C8_TwelveMonthsInOrder ==
    pc = "aggregated" =>
        /\ exc = NoExc
        /\ DOMAIN series = {"ingresos", "isv"}
        /\ \A k \in {"ingresos", "isv"} :
               LET col == IF k = "ingresos" THEN "Ingreso Total" ELSE "ISV"
               IN  /\ series[k].index = MESES_ORDEN
                   /\ Len(series[k].values) = 12
                   /\ \A m \in 1..12 :
                          LET rows == {i \in RowsOf(dfn) :
                                           dfn["Mes"][i] = Str(<<MESES_ORDEN[m]>>)}
                          IN  series[k].values[m] =
                                  IF rows = {} THEN FloatNaN
                                  ELSE Float(SumRows(dfn, col, rows), 1)
        /\ series_temporales(Reversed(dfn)).ret = series

\* Febrero came before Enero in the input and Enero still leads the series
C8_Witness ==
    /\ pc = "aggregated"
    /\ NRows(dfn) = 2
    /\ dfn["Mes"][1] = Str(<<"Febrero">>) /\ dfn["Mes"][2] = Str(<<"Enero">>)
    /\ series.ingresos.values[1] = Float(100, 1)
    /\ series.ingresos.values[2] = Float(200, 1)
    /\ series.ingresos.values[3] = FloatNaN

MetricKeys ==
    {"total_ingresos", "total_isv", "utilidad_promedio", "total_ventas",
     "categorias_unicas", "meses_activos"}

Present(d, col) == {i \in RowsOf(d) : ~IsNaN(d[col][i])}

\* C9: resumen_metricas returns exactly the six metrics: the sums of Ingreso
\* Total, ISV and Cantidad Vendida, the mean of Utilidad Bruta, the numbers of
\* distinct Categoría and Mes values; the two-row scenario gives 300, 45, 45,
\* 30, 2, 2.
C9_SixMetrics ==
    pc \in {"summarised", "aggregated"} =>
        /\ exc = NoExc
        /\ DOMAIN metricas = MetricKeys
        /\ metricas.total_ingresos = Float(SumRows(dfn, "Ingreso Total", RowsOf(dfn)), 1)
        /\ metricas.total_isv = Float(SumRows(dfn, "ISV", RowsOf(dfn)), 1)
        /\ metricas.total_ventas = Float(SumRows(dfn, "Cantidad Vendida", RowsOf(dfn)), 1)
        /\ Present(dfn, "Utilidad Bruta") # {} =>
               /\ metricas.utilidad_promedio.t = "num"
               /\ metricas.utilidad_promedio.n
                      * Cardinality(Present(dfn, "Utilidad Bruta"))
                  = SumRows(dfn, "Utilidad Bruta", RowsOf(dfn))
                      * metricas.utilidad_promedio.d
        /\ metricas.categorias_unicas
               = Cardinality({dfn["Categoría"][i] : i \in Present(dfn, "Categoría")})
        /\ metricas.meses_activos
               = Cardinality({dfn["Mes"][i] : i \in Present(dfn, "Mes")})
        /\ dfn = ScenarioDataset =>
               /\ metricas.total_ingresos = Float(300, 1)
               /\ metricas.total_isv = Float(45, 1)
               /\ metricas.utilidad_promedio.n = 45 * metricas.utilidad_promedio.d
               /\ metricas.total_ventas = Float(30, 1)
               /\ metricas.categorias_unicas = 2
               /\ metricas.meses_activos = 2

\* the two-row scenario was summarised
C9_Witness == pc = "summarised" /\ dfn = ScenarioDataset /\ DOMAIN metricas = MetricKeys

AllMissing(d, col) == NRows(d) > 0 /\ Present(d, col) = {}

SummedMetrics ==
    {<<"Ingreso Total", "total_ingresos">>, <<"ISV", "total_isv">>,
     <<"Cantidad Vendida", "total_ventas">>}

\* C10 as stated: resumen_metricas does not raise, and the metric of a column
\* that holds only missing values is the missing value, for the three sums and
\* for the mean.
C10_AllMissingGivesNaN ==
    pc = "summarised" =>
        /\ exc = NoExc
        /\ \A p \in SummedMetrics : AllMissing(dfn, p[1]) => metricas[p[2]] = FloatNaN
        /\ AllMissing(dfn, "Utilidad Bruta") => metricas.utilidad_promedio = FloatNaN

\* C10, amended: resumen_metricas does not raise; over a column that holds
\* only missing values the three sums are 0 and the mean is the missing value;
\* when only some values are missing the sums and the mean are those of the
\* values present.
C10_AllMissingSumsZeroMeanNaN ==
    pc = "summarised" =>
        /\ exc = NoExc
        /\ \A p \in SummedMetrics :
               /\ AllMissing(dfn, p[1]) => metricas[p[2]] = Float(0, 1)
               /\ metricas[p[2]] = Float(SumRows(dfn, p[1], Present(dfn, p[1])), 1)
        /\ AllMissing(dfn, "Utilidad Bruta") => metricas.utilidad_promedio = FloatNaN
        /\ Present(dfn, "Utilidad Bruta") # {} =>
               metricas.utilidad_promedio
                   = Float(SumRows(dfn, "Utilidad Bruta", Present(dfn, "Utilidad Bruta")),
                           Cardinality(Present(dfn, "Utilidad Bruta")))

\* two rows, every summed or averaged column missing throughout; and two rows
\* of which one has no revenue
C10_Witness ==
    /\ pc = "summarised"
    /\ NRows(dfn) = 2
    /\ \A c \in NumericRequired : AllMissing(dfn, c)
    /\ metricas.total_ingresos = Float(0, 1)
    /\ metricas.utilidad_promedio = FloatNaN

----------------------------------------------------------------------------
(* processing.run_pca and processing.run_kmeans: exceptions and selection *)

\* KMeans(n_clusters=k, random_state=42, n_init=10)
RANDOM_STATE == 42
N_INIT == 10

Digits == <<"0", "1", "2", "3", "4", "5", "6", "7", "8", "9">>

RECURSIVE StrOfInt(_)
\* str(n) of a natural number: its decimal digits
StrOfInt(n) ==
    IF n < 10 THEN <<Digits[n + 1]>>
    ELSE StrOfInt(n \div 10) \o <<Digits[(n % 10) + 1]>>

\* ProcessingError(message) and ProcessingError(message, detail=...): the
\* message is passed by position, so it is also the exception's args[0];
\* detail is None unless given.
ProcessingError(message, detail) ==
    [type |-> "ProcessingError", message |-> message, detail |-> detail,
     args |-> <<message>>]

\* an exception of the libraries, raised with one message
LibraryError(type, message) ==
    [type |-> type, message |-> message, detail |-> Nothing, args |-> <<message>>]

\* str(e): args[0], and its repr when e is a KeyError
str(e) ==
    IF e.args = <<>> THEN <<>>
    ELSE IF e.type = "KeyError" THEN <<"\"">> \o e.args[1] \o <<"\"">>
    ELSE e.args[1]

\* the names of the list that are no column of the dataset, in list order
NotInIndex(d, variables) == SelectSeq(variables, LAMBDA c : c \notin Columns(d))

\* df[variables]: the selected columns, or pandas' KeyError naming the
\* absent ones
Selection(d, variables) ==
    LET absent == NotInIndex(d, variables)
    IN  IF absent = <<>>
        THEN [exc |-> NoExc, ret |-> [c \in Range(variables) |-> d[c]]]
        ELSE [exc |-> LibraryError("KeyError",
                        IF Len(absent) = Len(variables)
                        THEN <<"None of [Index([">> \o ListRepr(variables)
                             \o <<"], dtype='object')] are in the [columns]">>
                        ELSE <<"[">> \o ListRepr(absent) \o <<"] not in index">>),
              ret |-> None]

\* the positions of the rows that dropna() keeps: no selected cell is missing
SurvivingIndex(d, cols) ==
    SelectSeq([i \in 1..NRows(d) |-> i],
              LAMBDA i : \A c \in cols : ~IsNaN(d[c][i]))

\* the cells of a column at the positions idx, in that order
Rows(col, idx) == [j \in 1..Len(idx) |-> col[idx[j]]]

\* the rows of d at the positions idx, in that order (df.loc[idx])
Loc(d, idx) == [c \in Columns(d) |-> Rows(d[c], idx)]

\* df[variables].dropna() as the pair of the kept index and the kept rows
dropna(X) ==
    LET idx == SurvivingIndex(X, Columns(X))
    IN  [index |-> idx, data |-> Loc(X, idx)]

\* len(X)
len(X) == Len(X.index)

----------------------------------------------------------------------------
(* The library steps of the ML adapters.  The numeric columns of a row of   *)
(* the model carry one value, so a standardized matrix has rank at most     *)
(* one and everything below is computed exactly in integers.                *)

RECURSIVE SumSeq(_)
SumSeq(s) == IF s = <<>> THEN 0 ELSE Head(s) + SumSeq(Tail(s))

Squares(s) == [i \in DOMAIN s |-> s[i] * s[i]]

\* n^2 times the variance of the numbers: n * sum(x^2) - sum(x)^2
Spread(s) == Len(s) * SumSeq(Squares(s)) - SumSeq(s) * SumSeq(s)

\* a standardized value: num / sqrt(D), and 0 when the column is constant
Z(num, D) == [num |-> num, D |-> D]

\* StandardScaler().fit_transform(X): (x - mean) / std, column by column
StandardScaler_fit_transform(X) ==
    IF len(X) = 0
    THEN [exc |-> LibraryError("ValueError",
                     <<"Found array with 0 sample(s) while a minimum of 1 is required by StandardScaler.">>),
          ret |-> None]
    ELSE IF \E c \in Columns(X.data) : ~Summable(X.data[c])
    THEN [exc |-> LibraryError("ValueError",
                     <<"could not convert string to float: 'N/A'">>),
          ret |-> None]
    ELSE [exc |-> NoExc,
          ret |-> [c \in Columns(X.data) |->
                     LET x == [j \in 1..len(X) |-> X.data[c][j].n]
                         sum == SumSeq(x)
                         D == Spread(x)
                     IN  [j \in 1..len(X) |-> Z(len(X) * x[j] - sum, D)]]]

\* row j of a matrix kept by columns
Point(M, j) == [c \in DOMAIN M |-> M[c][j]]

Samples(M) == IF DOMAIN M = {} THEN 0 ELSE Len(M[CHOOSE c \in DOMAIN M : TRUE])

DistinctPoints(M) == {Point(M, j) : j \in 1..Samples(M)}

Min(a, b) == IF a <= b THEN a ELSE b

\* check_random_state(seed): an integer seed makes a generator of its own,
\* whose stream depends on the seed alone
check_random_state_global(seed, global) == global

check_random_state(seed, global) == seed

\* The label arrays k-means can end with: a row's label is the nearest
\* center, so equal rows get equal labels, and as many clusters are used as
\* there are distinct rows, up to n_clusters.
Labelings(M, k) ==
    LET points == DistinctPoints(M)
        used == Min(k, Cardinality(points))
    IN  {[j \in 1..Samples(M) |-> f[Point(M, j)]] :
            f \in {g \in [points -> 0..(k - 1)] : Cardinality(Range(g)) = used}}

RECURSIVE RankOf(_, _)
\* the position of a label array in the order of base-k numerals
RankOf(lab, k) ==
    IF lab = <<>> THEN 0 ELSE Head(lab) + k * RankOf(Tail(lab), k)

RECURSIVE Ordered(_, _)
\* the label arrays of S in that order
Ordered(S, k) ==
    IF S = {} THEN <<>>
    ELSE LET first == CHOOSE x \in S : \A y \in S : RankOf(x, k) <= RankOf(y, k)
         IN  <<first>> \o Ordered(S \ {first}, k)

\* the member of an ordered sequence at position pos, cyclically
Pick(ordered, pos) == ordered[(pos % Len(ordered)) + 1]

RECURSIVE Factorial(_)
Factorial(n) == IF n <= 1 THEN 1 ELSE n * Factorial(n - 1)

RECURSIVE SumFn(_)
\* the sum of the values of a function with a finite domain
SumFn(f) ==
    IF DOMAIN f = {} THEN 0
    ELSE LET x == CHOOSE y \in DOMAIN f : TRUE
         IN  f[x] + SumFn([y \in DOMAIN f \ {x} |-> f[y]])

\* the rows a label array assigns to cluster c, in row order
Members(lab, c) == SelectSeq([j \in DOMAIN lab |-> j], LAMBDA j : lab[j] = c)

\* the numerators of the standardized values of those rows in one column
Numerators(col, rows) == [i \in DOMAIN rows |-> col[rows[i]].num]

\* Sum of squared distances of the rows to the mean of their cluster, times
\* n! and times D (one D for all columns, the columns being equal).
Inertia(M, lab) ==
    LET L == Factorial(Samples(M))
        within(c, col) ==
            LET nums == Numerators(M[col], Members(lab, c))
            IN  L * SumSeq(Squares(nums))
                - (L \div Len(nums)) * SumSeq(nums) * SumSeq(nums)
    IN  SumFn([col \in DOMAIN M |-> SumFn([c \in Range(lab) |-> within(c, col)])])

\* the restarts: n_init label arrays taken from consecutive positions of the
\* generator's stream
Restarts(S, stream, n_init, k) ==
    LET ordered == Ordered(S, k)
    IN  [i \in 1..n_init |-> Pick(ordered, stream + i - 1)]

\* the restart of least inertia, the earliest one among equals
BestRestart(M, runs) ==
    LET inertia == [i \in DOMAIN runs |-> Inertia(M, runs[i])]
    IN  runs[CHOOSE i \in DOMAIN runs :
                /\ \A j \in DOMAIN runs : inertia[i] <= inertia[j]
                /\ \A j \in 1..(i - 1) : inertia[j] > inertia[i]]

\* cluster_centers_: the mean of the rows of each cluster; a cluster left
\* without rows stays on the row the generator placed it on
Centers(M, lab, k, stream) ==
    [c \in 0..(k - 1) |->
        [col \in DOMAIN M |->
            LET rows == IF Members(lab, c) # <<>> THEN Members(lab, c)
                        ELSE <<(stream % Samples(M)) + 1>>
            IN  [num |-> SumSeq(Numerators(M[col], rows)), cnt |-> Len(rows),
                 D |-> M[col][1].D]]]

\* KMeans(n_clusters, random_state, n_init).fit_predict(M) with its
\* cluster_centers_
KMeans_fit_predict(M, n_clusters, random_state, n_init, global) ==
    IF Samples(M) < n_clusters
    THEN [exc |-> LibraryError("ValueError",
                     <<"n_samples=">> \o StrOfInt(Samples(M))
                     \o <<" should be >= n_clusters=">> \o StrOfInt(n_clusters)
                     \o <<".">>),
          ret |-> None]
    ELSE LET stream == check_random_state(random_state, global)
             labels == BestRestart(M, Restarts(Labelings(M, n_clusters), stream,
                                               n_init, n_clusters))
         IN  [exc |-> NoExc,
              ret |-> [labels |-> labels,
                       cluster_centers_ |-> Centers(M, labels, n_clusters, stream)]]

\* the number of columns of the projection
ComponentsKeptAll(n_components, n_features) == n_features

ComponentsKept(n_components, n_features) == n_components

\* PCA(n_components).fit_transform(M) with its explained_variance_ratio_,
\* for a matrix of rank at most one whose columns are `variables`: the first
\* axis carries all the variance, a row's score on it is sqrt(n_features)
\* times its standardized value, and the ratios are 0/0 when the rows are
\* all equal.
PCA_fit_transform(M, variables, n_components) ==
    LET least == Min(Samples(M), Len(variables))
        first == M[variables[1]]
        width == ComponentsKept(n_components, Len(variables))
    IN  IF n_components > least
        THEN [exc |-> LibraryError("ValueError",
                         <<"n_components=">> \o StrOfInt(n_components)
                         \o <<" must be between 0 and min(n_samples, n_features)=">>
                         \o StrOfInt(least) \o <<" with svd_solver='full'">>),
              ret |-> None]
        ELSE [exc |-> NoExc,
              ret |-> [components |->
                          [j \in 1..Samples(M) |->
                              [i \in 1..width |->
                                  IF i = 1
                                  THEN [num |-> first[j].num, D |-> first[j].D,
                                        f |-> Len(variables)]
                                  ELSE [num |-> 0, D |-> first[j].D,
                                        f |-> Len(variables)]]],
                       explained_variance_ratio_ |->
                          [i \in 1..width |->
                              IF first[1].D = 0 THEN FloatNaN
                              ELSE IF i = 1 THEN Float(1, 1) ELSE Float(0, 1)]]]

----------------------------------------------------------------------------
(* processing.run_pca and processing.run_kmeans *)

\* round(4)
ROUND_DIGITS == 4

RECURSIVE Pow10(_)
Pow10(k) == IF k = 0 THEN 1 ELSE 10 * Pow10(k - 1)

\* a non-negative mean rounded to `digits` decimals
Round(x, digits) ==
    IF x.t = "nan" THEN x
    ELSE Float((2 * Pow10(digits) * x.n + x.d) \div (2 * x.d), Pow10(digits))

RECURSIVE SortedSeq(_)
\* the numbers of a finite set in increasing order
SortedSeq(S) ==
    IF S = {} THEN <<>>
    ELSE LET least == CHOOSE x \in S : \A y \in S : x <= y
         IN  <<least>> \o SortedSeq(S \ {least})

LibraryCall(fn, kw) == [fn |-> fn, kw |-> kw]

\* a call that ended by raising e after the library calls made so far
Raise(e, made) == [exc |-> e, ret |-> None, calls |-> made]

\* the body of run_pca's try block
run_pca_try(d, variables, n_components) ==
    LET sel == Selection(d, variables)
        X == dropna(sel.ret)
        scaler == LibraryCall("StandardScaler", EmptyDict)
        X_scaled == StandardScaler_fit_transform(X)
        pca == LibraryCall("PCA", [n_components |-> n_components])
        fitted == PCA_fit_transform(X_scaled.ret, variables, n_components)
    IN  IF Raised(sel) THEN Raise(sel.exc, <<>>)
        ELSE IF len(X) = 0
        THEN Raise(ProcessingError(<<"No hay datos válidos después de remover NaN">>,
                                   Nothing), <<>>)
        ELSE IF Raised(X_scaled) THEN Raise(X_scaled.exc, <<scaler>>)
        ELSE IF Raised(fitted) THEN Raise(fitted.exc, <<scaler, pca>>)
        ELSE [exc |-> NoExc,
              ret |-> [components |-> fitted.ret.components,
                       explained |-> fitted.ret.explained_variance_ratio_],
              calls |-> <<scaler, pca>>]

\* run_pca without its except clause
run_pca_unguarded(d, variables, n_components) ==
    run_pca_try(d, variables, n_components)

\* run_pca(df, variables, n_components)
run_pca(d, variables, n_components) ==
    LET r == run_pca_try(d, variables, n_components)
    IN  IF Raised(r)
        THEN Raise(ProcessingError(<<"Error ejecutando PCA">>, Some(str(r.exc))),
                   r.calls)
        ELSE r

\* the surviving rows themselves with their label: one row per row
PerfilPerRow(df_tmp, labels, variables) ==
    [index |-> [j \in DOMAIN labels |-> j - 1],
     columns |-> variables \o <<"Cluster">>,
     data |-> [j \in {i - 1 : i \in DOMAIN labels} |->
                 [v \in Range(variables) |-> Float(df_tmp[v][j + 1].n, 1)]]]

\* df_tmp.groupby('Cluster')[variables].mean().round(4): one row per label
\* in use, in increasing order, one column per selected variable
Perfil(df_tmp, labels, variables) ==
    [index |-> SortedSeq(Range(labels)),
     columns |-> variables,
     data |-> [c \in Range(labels) |->
                 [v \in Range(variables) |->
                     Round(SeriesMean(Rows(df_tmp[v], Members(labels, c))),
                           ROUND_DIGITS)]]]

\* the body of run_kmeans' try block; global is the state of numpy.random
run_kmeans_try(d, variables, k, global) ==
    LET sel == Selection(d, variables)
        X == dropna(sel.ret)
        scaler == LibraryCall("StandardScaler", EmptyDict)
        X_scaled == StandardScaler_fit_transform(X)
        kmeans == LibraryCall("KMeans", [n_clusters |-> k,
                                         random_state |-> RANDOM_STATE,
                                         n_init |-> N_INIT])
        fitted == KMeans_fit_predict(X_scaled.ret, k, RANDOM_STATE, N_INIT, global)
        df_tmp == Loc(d, X.index)
    IN  IF Raised(sel) THEN Raise(sel.exc, <<>>)
        ELSE IF len(X) < k
        THEN Raise(ProcessingError(<<"No hay suficientes datos (">>
                                   \o StrOfInt(len(X)) \o <<") para ">>
                                   \o StrOfInt(k) \o <<" clusters">>,
                                   Nothing), <<>>)
        ELSE IF Raised(X_scaled) THEN Raise(X_scaled.exc, <<scaler>>)
        ELSE IF Raised(fitted) THEN Raise(fitted.exc, <<scaler, kmeans>>)
        ELSE [exc |-> NoExc,
              ret |-> [labels |-> fitted.ret.labels,
                       centers |-> fitted.ret.cluster_centers_,
                       perfil |-> Perfil(df_tmp, fitted.ret.labels, variables)],
              calls |-> <<scaler, kmeans>>]

\* run_kmeans(df, variables, k)
run_kmeans(d, variables, k, global) ==
    LET r == run_kmeans_try(d, variables, k, global)
    IN  IF Raised(r)
        THEN Raise(ProcessingError(<<"Error ejecutando K-Means">>, Some(str(r.exc))),
                   r.calls)
        ELSE r

----------------------------------------------------------------------------
(* The ML adapters called on a dataset, and called again *)

\* rows of a dataset handed to the ML adapters
MaxMLRows == 3
\* largest number of components or clusters asked for
MaxK == 3
\* states of numpy.random the model tells apart
RngStates == 2

\* a row: one number in every numeric column, and possibly a missing ISV or
\* a text in "Ingreso Total"
MLRows ==
    [v : {1, 2, 3}, defect : {"none"}]
    \cup {[v |-> 1, defect |-> "missing"], [v |-> 2, defect |-> "text"]}

MLColumns == {"Mes", "Categoría"} \cup Range(VARIABLES_NUM)

MLCell(r, c) ==
    CASE c = "Mes" -> Str(<<"Enero">>)
      [] c = "Categoría" -> Str(<<"A">>)
      [] c = "ISV" /\ r.defect = "missing" -> NaN
      [] c = "Ingreso Total" /\ r.defect = "text" -> Str(<<"N/A">>)
      [] OTHER -> Num(r.v)

FromMLRows(rows) ==
    [c \in MLColumns |-> [i \in 1..Len(rows) |-> MLCell(rows[i], c)]]

\* the datasets of at most maxRows rows
MLDatasets(maxRows) ==
    {FromMLRows(rs) : rs \in UNION {[1..n -> MLRows] : n \in 0..maxRows}}

\* the eight numeric variables, two of them, and a list naming an absent column
MLVariableLists ==
    {VARIABLES_NUM, <<"Ingreso Total", "Utilidad Bruta">>,
     <<"Ingreso Total", "Descuento">>}

Outcome(r) == [exc |-> r.exc, ret |-> r.ret]

InitML ==
    /\ pc = "input"
    /\ df \in MLDatasets(MaxMLRows)
    /\ df0 = df
    /\ numeric_cols \in MLVariableLists
    /\ args \in [fn : {"run_pca", "run_kmeans"}, n : 1..MaxK]
    /\ source = None /\ exc = NoExc /\ ret = None
    /\ dfn = None /\ metricas = None /\ series = None /\ ran = {}
    /\ calls = <<>> /\ np_random = 0 /\ prev = None
    /\ files = None /\ locks = None /\ handles = None /\ session = None

\* res = run_pca(df, variables, n_components), a first or a second time
CallRunPCA ==
    /\ pc \in {"input", "returned"}
    /\ args.fn = "run_pca"
    /\ LET r == run_pca(df, numeric_cols, args.n)
       IN  /\ exc' = r.exc
           /\ ret' = r.ret
           /\ calls' = r.calls
    /\ prev' = IF pc = "returned" THEN [exc |-> exc, ret |-> ret] ELSE prev
    /\ pc' = IF pc = "input" THEN "returned" ELSE "again"
    /\ UNCHANGED <<source, df, numeric_cols, dfn, metricas, series, ran, df0,
                   args, np_random, stored>>

\* res = run_kmeans(df, variables, k), a first or a second time
CallRunKMeans ==
    /\ pc \in {"input", "returned"}
    /\ args.fn = "run_kmeans"
    /\ LET r == run_kmeans(df, numeric_cols, args.n, np_random)
       IN  /\ exc' = r.exc
           /\ ret' = r.ret
           /\ calls' = r.calls
    /\ prev' = IF pc = "returned" THEN [exc |-> exc, ret |-> ret] ELSE prev
    /\ pc' = IF pc = "input" THEN "returned" ELSE "again"
    /\ UNCHANGED <<source, df, numeric_cols, dfn, metricas, series, ran, df0,
                   args, np_random, stored>>

\* between two invocations, other code of the process draws from numpy.random
OtherCalls ==
    /\ pc = "returned"
    /\ np_random < RngStates - 1
    /\ np_random' = np_random + 1
    /\ UNCHANGED <<pc, source, df, numeric_cols, exc, ret, dfn, metricas, series,
                   ran, df0, args, calls, prev, stored>>

NextML == CallRunPCA \/ CallRunKMeans \/ OtherCalls

SpecML == InitML /\ [][NextML]_vars

----------------------------------------------------------------------------
(* Properties of the ML adapters *)

\* the text contains the piece as a run of consecutive symbols
Mentions(text, piece) ==
    \E i \in 1..(Len(text) - Len(piece) + 1) :
        SubSeq(text, i, i + Len(piece) - 1) = piece

\* the rows of df with no missing value among the selected columns
Survivors == SurvivingIndex(df, Range(numeric_cols))

Called(fn) == pc # "input" /\ args.fn = fn

\* run_kmeans was called with all its columns present and fewer surviving
\* rows than clusters
TooFewRows ==
    /\ Called("run_kmeans")
    /\ NotInIndex(df, numeric_cols) = <<>>
    /\ Len(Survivors) < args.n

\* C11: when fewer rows than k survive the missing-value filter, run_kmeans
\* fails before any standardization or clustering with a ProcessingError
\* whose message states the surviving row count and k.
C11_MessageStatesCountAndK ==
    TooFewRows =>
        /\ exc.type = "ProcessingError"
        /\ calls = <<>>
        /\ Mentions(exc.message, StrOfInt(Len(Survivors)))
        /\ Mentions(exc.message, StrOfInt(args.n))

\* What run_kmeans does in that case: the error raised inside the try block
\* is caught by its own except clause, so the count and k arrive in the
\* detail of a ProcessingError whose message is the general one.
C11_DetailStatesCountAndK ==
    TooFewRows =>
        /\ exc.type = "ProcessingError"
        /\ calls = <<>>
        /\ exc.message = <<"Error ejecutando K-Means">>
        /\ exc.detail = Some(<<"No hay suficientes datos (">>
                             \o StrOfInt(Len(Survivors)) \o <<") para ">>
                             \o StrOfInt(args.n) \o <<" clusters">>)

\* two valid rows and k = 3
C11_TwoRowsThreeClusters ==
    /\ TooFewRows
    /\ NRows(df) = 3 /\ Len(Survivors) = 2 /\ args.n = 3
    /\ exc.detail.v = <<"No hay suficientes datos (", "2", ") para ", "3", " clusters">>

Succeeded(fn) == Called(fn) /\ exc = NoExc

\* the distinct combinations of selected values among the surviving rows
DistinctSurvivors ==
    {[c \in Range(numeric_cols) |-> df[c][Survivors[i]]] : i \in DOMAIN Survivors}

\* the labels 0..k-1 in order
ClusterIds(k) == [i \in 1..k |-> i - 1]

C12_EqualRows ==
    /\ Succeeded("run_kmeans")
    /\ args.n = 2 /\ Len(Survivors) = 2 /\ Cardinality(DistinctSurvivors) = 1
    /\ Len(ret.perfil.index) = 1

\* C13: the perfil returned by run_kmeans is the original data plus a
\* 'Cluster' column: as many rows as the dataset (n for an n-row dataset with
\* no missing value) and more columns than the selected numeric variables.
C13_PerfilIsLabelledData ==
    (Succeeded("run_kmeans") /\ Len(Survivors) = NRows(df)) =>
        /\ Len(ret.perfil.index) = NRows(df)
        /\ Len(ret.perfil.columns) > Len(numeric_cols)
        /\ "Cluster" \in Range(ret.perfil.columns)

\* What run_kmeans returns: the mean of each selected variable per cluster,
\* so at most k rows and exactly the selected columns.
C13_PerfilIsClusterMeans ==
    Succeeded("run_kmeans") =>
        /\ Len(ret.perfil.index) <= args.n
        /\ ret.perfil.columns = numeric_cols
        /\ \A c \in Range(ret.labels), v \in Range(numeric_cols) :
               ret.perfil.data[c][v] =
                   Round(SeriesMean(Loc(df, [i \in DOMAIN Members(ret.labels, c) |->
                                               Survivors[Members(ret.labels, c)[i]]])[v]),
                         ROUND_DIGITS)

\* the shape of the performance test: no missing value, the eight
\* variables, k = 2, more rows than clusters
C13_Witness ==
    /\ Succeeded("run_kmeans")
    /\ numeric_cols = VARIABLES_NUM /\ args.n = 2
    /\ NRows(df) = 3 /\ Len(Survivors) = 3
    /\ Len(ret.perfil.index) = 2
    /\ Len(ret.perfil.columns) = 8

AllPresent == NotInIndex(df, numeric_cols) = <<>>

\* a surviving row holds a text in a selected column
TextSurvives ==
    \E i \in DOMAIN Survivors, c \in Range(numeric_cols) : df[c][Survivors[i]].t = "str"

\* C14: run_pca lets no exception but ProcessingError escape; when no row
\* survives the missing-value filter, a selected column is absent, or fewer
\* rows or columns than components are left (or the computation fails in
\* another way), it raises a ProcessingError whose detail carries the cause.
C14_OnlyProcessingErrorEscapes ==
    Called("run_pca") =>
        /\ exc.type \in {"None", "ProcessingError"}
        /\ exc.type = "ProcessingError" =>
               /\ exc.message = <<"Error ejecutando PCA">>
               /\ exc.detail.some
               /\ exc.detail.v # <<>>
        /\ ~AllPresent =>
               /\ exc.type = "ProcessingError"
               /\ Mentions(exc.detail.v, <<NotInIndex(df, numeric_cols)[1]>>)
        /\ (AllPresent /\ Len(Survivors) = 0) =>
               /\ exc.type = "ProcessingError"
               /\ exc.detail.v = <<"No hay datos válidos después de remover NaN">>
        /\ (AllPresent /\ Len(Survivors) > 0 /\ TextSurvives) =>
               /\ exc.type = "ProcessingError"
               /\ exc.detail.v = <<"could not convert string to float: 'N/A'">>
        /\ (AllPresent /\ Len(Survivors) > 0 /\ ~TextSurvives
              /\ args.n > Min(Len(Survivors), Len(numeric_cols))) =>
               /\ exc.type = "ProcessingError"
               /\ Mentions(exc.detail.v, <<"n_components=">> \o StrOfInt(args.n))

\* no row survives the filter
C14_Witness ==
    /\ Called("run_pca")
    /\ AllPresent /\ NRows(df) > 0 /\ Len(Survivors) = 0
    /\ exc.type = "ProcessingError"
    /\ exc.detail.v = <<"No hay datos válidos después de remover NaN">>

\* fewer rows than components
C14_FewerRowsThanComponents ==
    /\ Called("run_pca")
    /\ AllPresent /\ Len(Survivors) = 1 /\ args.n = 2
    /\ exc.type = "ProcessingError"
    /\ Mentions(exc.detail.v, <<"n_components=", "2">>)

\* a > b for two floats; false when either is NaN
FloatGreater(a, b) == a.t = "num" /\ b.t = "num" /\ a.n * b.d > b.n * a.d

\* C15: after a successful run_pca(df, variables, p), components has one row
\* per row of df with no missing value among the selected columns and p
\* columns, and explained has p entries none of which is followed by a
\* larger one.
C15_ShapesAndOrder ==
    Succeeded("run_pca") =>
        /\ Len(ret.components) = Len(Survivors)
        /\ \A j \in DOMAIN ret.components : Len(ret.components[j]) = args.n
        /\ Len(ret.explained) = args.n
        /\ \A i \in 1..(args.n - 1) :
               ~FloatGreater(ret.explained[i + 1], ret.explained[i])

\* p = 2 on three rows of which two, different ones, survive
C15_Witness ==
    /\ Succeeded("run_pca")
    /\ args.n = 2 /\ NRows(df) = 3 /\ Len(Survivors) = 2
    /\ Len(ret.components) = 2
    /\ ret.explained = <<Float(1, 1), Float(0, 1)>>

C16_WitnessPCA ==
    /\ pc = "again"
    /\ Succeeded("run_pca")
    /\ np_random > 0
    /\ prev.ret.components = ret.components

----------------------------------------------------------------------------
(* io_utils.read_dataframe: characters, bytes and the text of a table.       *)
(* The content of a delimited-text file is modelled down to its characters:  *)
(* a byte is written as its ASCII character, or as its value for the bytes   *)
(* of accented letters.                                                      *)

\* the 7-bit characters csv.Sniffer counts, in code order: tab, newline and
\* the printable ones but the grave accent, which no file of the model holds
ASCII ==
    <<"\t", "\n", " ", "!", "\"", "#", "$", "%", "&", "'", "(", ")",
      "*", "+", ",", "-", ".", "/", "0", "1", "2", "3", "4", "5",
      "6", "7", "8", "9", ":", ";", "<", "=", ">", "?", "@", "A",
      "B", "C", "D", "E", "F", "G", "H", "I", "J", "K", "L", "M",
      "N", "O", "P", "Q", "R", "S", "T", "U", "V", "W", "X", "Y",
      "Z", "[", "\\", "]", "^", "_", "a", "b", "c", "d", "e",
      "f", "g", "h", "i", "j", "k", "l", "m", "n", "o", "p", "q",
      "r", "s", "t", "u", "v", "w", "x", "y", "z", "{", "|", "}",
      "~">>

\* the characters of the words that occur in the tables of the model
Spelling ==
    ("Mes" :> <<"M", "e", "s">>)
    @@ ("Categoría" :> <<"C", "a", "t", "e", "g", "o", "r", "í", "a">>)
    @@ ("Cantidad Vendida" :> <<"C", "a", "n", "t", "i", "d", "a", "d", " ", "V", "e", "n", "d", "i", "d", "a">>)
    @@ ("Ingreso Total" :> <<"I", "n", "g", "r", "e", "s", "o", " ", "T", "o", "t", "a", "l">>)
    @@ ("ISV" :> <<"I", "S", "V">>)
    @@ ("Utilidad Bruta" :> <<"U", "t", "i", "l", "i", "d", "a", "d", " ", "B", "r", "u", "t", "a">>)
    @@ ("Enero" :> <<"E", "n", "e", "r", "o">>)
    @@ ("Febrero" :> <<"F", "e", "b", "r", "e", "r", "o">>)
    @@ ("Marzo" :> <<"M", "a", "r", "z", "o">>)
    @@ ("Abril" :> <<"A", "b", "r", "i", "l">>)
    @@ ("A" :> <<"A">>)
    @@ ("B" :> <<"B">>)

\* names given to texts that are none of those words, by position
Unknown == <<"?1", "?2", "?3", "?4", "?5", "?6", "?7", "?8", "?9">>

\* the word spelled by the characters, or the name for an unknown text
Unspell(chars, position) ==
    IF \E w \in DOMAIN Spelling : Spelling[w] = chars
    THEN CHOOSE w \in DOMAIN Spelling : Spelling[w] = chars
    ELSE Unknown[position]

RECURSIVE Flatten(_)
\* the texts of a sequence put end to end
Flatten(texts) ==
    IF texts = <<>> THEN <<>>
    ELSE IF Len(texts) = 1 THEN texts[1]
    ELSE LET half == Len(texts) \div 2
         IN  Flatten(SubSeq(texts, 1, half))
             \o Flatten(SubSeq(texts, half + 1, Len(texts)))

\* text.encode(encoding) for encoding "utf-8" or "latin-1"
Encode(chars, encoding) ==
    Flatten([i \in DOMAIN chars |->
        IF chars[i] = "í"
        THEN (IF encoding = "utf-8" THEN <<"0xC3", "0xAD">> ELSE <<"0xED">>)
        ELSE <<chars[i]>>])

IsAsciiByte(b) == b \in Range(ASCII)

\* bytes.decode("utf-8", errors=...): Nothing stands for UnicodeDecodeError
\* (errors="strict"); with errors="ignore" the invalid bytes are dropped.
\* Of the bytes above 0x7F the model has, only 0xC3 0xAD is a valid sequence.
DecodeUtf8(bytes, errors) ==
    LET lead(i) == bytes[i] = "0xC3" /\ i < Len(bytes) /\ bytes[i + 1] = "0xAD"
        trail(i) == bytes[i] = "0xAD" /\ i > 1 /\ bytes[i - 1] = "0xC3"
        invalid == {i \in DOMAIN bytes :
                       ~IsAsciiByte(bytes[i]) /\ ~lead(i) /\ ~trail(i)}
    IN  IF invalid # {} /\ errors # "ignore" THEN Nothing
        ELSE Some(Flatten([i \in DOMAIN bytes |->
                 IF IsAsciiByte(bytes[i]) THEN <<bytes[i]>>
                 ELSE IF lead(i) THEN <<"í">>
                 ELSE <<>>]))

\* bytes.decode("latin-1"): every byte is a character
DecodeLatin1(bytes) ==
    [i \in DOMAIN bytes |->
        CASE bytes[i] = "0xED" -> "í"
          [] bytes[i] = "0xC3" -> "Ã"
          [] bytes[i] = "0xAD" -> "SHY"
          [] OTHER -> bytes[i]]

----------------------------------------------------------------------------
(* io_utils._sniff_delimiter: csv.Sniffer on text without quote characters, *)
(* of at most ten lines (one chunk of the sniffer)                          *)

\* sample = path_or_bytes[:4096]
SAMPLE_SIZE == 4096

\* csv.Sniffer.preferred
PREFERRED == <<",", "\t", ";", " ", ":">>

\* list(filter(None, data.split('\n')))
NonEmptyLines(text) == SelectSeq(Split(text, "\n"), LAMBDA l : l # <<>>)

\* line.count(char)
Count(line, char) == Len(SelectSeq(line, LAMBDA x : x = char))

\* modes[char] from the counts of char in the lines: the count that most
\* lines have (the first such count met, among equals) and the number of
\* those lines less the number of the other lines
ModeOf(counts) ==
    LET with(f) == {i \in DOMAIN counts : counts[i] = f}
        tally == [f \in Range(counts) |->
                     [n |-> Cardinality(with(f)),
                      first |-> CHOOSE i \in with(f) : \A j \in with(f) : i <= j]]
        mode == CHOOSE f \in DOMAIN tally :
                    \A g \in DOMAIN tally :
                        \/ tally[f].n > tally[g].n
                        \/ tally[f].n = tally[g].n /\ tally[f].first <= tally[g].first
    IN  [freq |-> mode, lines |-> 2 * tally[mode].n - Len(counts)]

Mode(lines, char) == ModeOf([i \in DOMAIN lines |-> Count(lines[i], char)])

\* the characters whose mode is met by at least `percent` of the lines
Consistent(modes, total, percent) ==
    {char \in DOMAIN modes :
        /\ modes[char].freq > 0
        /\ modes[char].lines > 0
        /\ modes[char].lines * 100 >= percent * total}

\* the position of a character in the code order
Ord(char) == CHOOSE i \in DOMAIN ASCII : ASCII[i] = char

\* the delimiter among the characters that qualify: the only one, else the
\* first preferred one, else the greatest by (count, lines, code)
Delimiter(modes, delims) ==
    LET preferred == SelectSeq(PREFERRED, LAMBDA d : d \in delims)
        greater(a, b) ==
            \/ modes[a].freq > modes[b].freq
            \/ modes[a].freq = modes[b].freq /\ modes[a].lines > modes[b].lines
            \/ /\ modes[a].freq = modes[b].freq /\ modes[a].lines = modes[b].lines
               /\ Ord(a) >= Ord(b)
    IN  IF Cardinality(delims) = 1 THEN CHOOSE d \in delims : TRUE
        ELSE IF preferred # <<>> THEN preferred[1]
        ELSE CHOOSE d \in delims : \A e \in delims : greater(d, e)

\* consistency is lowered from 1.0 in steps of 0.01 while it is at least 0.9
\* (the last step, 0.9000000000000001, is above 0.9) until some character
\* qualifies; Nothing when none does
GuessFrom(modes, total) ==
    LET levels == {p \in 91..100 : Consistent(modes, total, p) # {}}
    IN  IF levels = {} THEN Nothing
        ELSE Some(Delimiter(modes,
                 Consistent(modes, total, CHOOSE p \in levels : \A q \in levels : q <= p)))

GuessLines(lines) ==
    IF lines = <<>> THEN Nothing
    ELSE GuessFrom([char \in Range(ASCII) |-> Mode(lines, char)], Len(lines))

\* Sniffer._guess_delimiter on the text
guess_delimiter(text) == GuessLines(NonEmptyLines(text))

\* a sniffer that settles for the comma
sniff_delimiter_comma(sample) == Some(",")

\* _sniff_delimiter(sample): the delimiter csv.Sniffer().sniff finds in the
\* sample decoded as UTF-8 with the invalid bytes dropped, None when it
\* raises
sniff_delimiter(sample) == guess_delimiter(DecodeUtf8(sample, "ignore").v)

----------------------------------------------------------------------------
(* The readers of pandas and pdfplumber as io_utils calls them.  The        *)
(* content of a file is a record: kind "text" with its bytes, or a binary   *)
(* kind ("workbook", "pdf", "parquet", "missing" for a path that does not   *)
(* exist) with what the libraries find in it.                               *)

DataFrame(d) == [type |-> "DataFrame", v |-> d]

\* the value of read_excel(sheet_name=None): every sheet, by name
DictOfSheets(sheets) == [type |-> "dict", v |-> sheets]

Returns(v) == [exc |-> NoExc, ret |-> v]

Fails(type, message) == [exc |-> LibraryError(type, message), ret |-> None]

\* the cells of a parsed column: numbers when every field present is a run
\* of digits, texts otherwise; an absent or empty field is missing
InferCells(fields) ==
    LET present == SelectSeq(fields, LAMBDA f : f # <<>>)
        numeric == \A i \in DOMAIN present : IsNumericText(present[i])
    IN  [i \in DOMAIN fields |->
            IF fields[i] = <<>> THEN NaN
            ELSE IF numeric THEN Num(ParseDigits(fields[i]))
            ELSE IF \E w \in DOMAIN Spelling : Spelling[w] = fields[i]
            THEN Str(<<Unspell(fields[i], 1)>>)
            ELSE Str(fields[i])]

\* the C parser on decoded text: blank lines skipped, the first line the
\* header, short rows padded with missing values, a row longer than the
\* header an error
ParseCsv(text, sep) ==
    LET lines == NonEmptyLines(text)
        header == Split(lines[1], sep)
        rows == [i \in 1..(Len(lines) - 1) |-> Split(lines[i + 1], sep)]
        long == {i \in DOMAIN rows : Len(rows[i]) > Len(header)}
        field(i, c) == IF c <= Len(rows[i]) THEN rows[i][c] ELSE <<>>
    IN  IF lines = <<>>
        THEN Fails("EmptyDataError", <<"No columns to parse from file">>)
        ELSE IF long # {}
        THEN Fails("ParserError",
                   <<"Error tokenizing data. C error: Expected ">>
                   \o StrOfInt(Len(header)) \o <<" fields in line ">>
                   \o StrOfInt(1 + CHOOSE i \in long : \A j \in long : i <= j)
                   \o <<", saw more">>)
        ELSE Returns(DataFrame(
                [name \in {Unspell(header[c], c) : c \in DOMAIN header} |->
                    LET c == CHOOSE k \in DOMAIN header : Unspell(header[k], k) = name
                    IN  InferCells([i \in DOMAIN rows |-> field(i, c)])]))

\* pd.read_csv(buffer or path, sep=sep, encoding=encoding)
read_csv(content, sep, encoding) ==
    IF content.kind = "missing"
    THEN Fails("FileNotFoundError", <<"[Errno 2] No such file or directory">>)
    ELSE IF content.kind = "text"
    THEN LET text == IF encoding = "utf-8" THEN DecodeUtf8(content.bytes, "strict")
                     ELSE Some(DecodeLatin1(content.bytes))
         IN  IF text.some THEN ParseCsv(text.v, sep)
             ELSE Fails("UnicodeDecodeError",
                        <<"'utf-8' codec can't decode byte 0xed: invalid continuation byte">>)
    ELSE IF encoding = "utf-8"
    THEN Fails("UnicodeDecodeError",
               <<"'utf-8' codec can't decode byte: invalid start byte">>)
    ELSE IF content.latin1 = "raises"
    THEN Fails("ParserError", <<"Error tokenizing data. C error: Expected 1 fields, saw more">>)
    ELSE Returns(DataFrame([name \in {Unknown[1]} |-> <<Str(<<Unknown[2]>>)>>]))

\* the engine that reads a workbook format
EngineOf(format) ==
    CASE format = "xlsx" -> "openpyxl"
      [] format = "xls" -> "xlrd"
      [] format = "xlsb" -> "pyxlsb"
      [] OTHER -> "odf"

\* sheet selectors: None, a sheet name, a sheet position
NoSheet == [by |-> "none", name |-> "", index |-> 0]
ByName(name) == [by |-> "name", name |-> name, index |-> 0]
ByIndex(index) == [by |-> "index", name |-> "", index |-> index]

\* the sheets of a workbook by name
SheetsByName(sheets) ==
    [name \in {sheets[i].name : i \in DOMAIN sheets} |->
        sheets[CHOOSE i \in DOMAIN sheets : sheets[i].name = name].data]

\* pd.read_excel(buffer or path, sheet_name=sheet_name, engine=engine) on a
\* workbook of sheets <<[name, data], ...>>; engine Nothing is engine=None,
\* sheet_name None stands for every sheet
read_excel(content, sheet_name, engine) ==
    IF content.kind = "missing"
    THEN Fails("FileNotFoundError", <<"[Errno 2] No such file or directory">>)
    ELSE IF content.kind # "workbook"
    THEN IF engine = Nothing
         THEN Fails("ValueError",
                    <<"Excel file format cannot be determined, you must specify an engine manually.">>)
         ELSE Fails("EngineError", <<"File is not a workbook of engine ", engine.v>>)
    ELSE IF engine # Nothing /\ engine.v # EngineOf(content.format)
    THEN Fails("EngineError", <<"File is not a workbook of engine ", engine.v>>)
    ELSE IF sheet_name.by = "none"
    THEN Returns(DictOfSheets(SheetsByName(content.sheets)))
    ELSE IF sheet_name.by = "index"
    THEN IF sheet_name.index + 1 \in DOMAIN content.sheets
         THEN Returns(DataFrame(content.sheets[sheet_name.index + 1].data))
         ELSE Fails("ValueError",
                    <<"Worksheet index ">> \o StrOfInt(sheet_name.index)
                    \o <<" is invalid, ">> \o StrOfInt(Len(content.sheets))
                    \o <<" worksheets found">>)
    ELSE IF sheet_name.name \in DOMAIN SheetsByName(content.sheets)
    THEN Returns(DataFrame(SheetsByName(content.sheets)[sheet_name.name]))
    ELSE Fails("ValueError", <<"Worksheet named '", sheet_name.name, "' not found">>)

\* pd.read_parquet(path)
read_parquet(content) ==
    IF content.kind = "missing"
    THEN Fails("FileNotFoundError", <<"[Errno 2] No such file or directory">>)
    ELSE IF content.kind = "parquet" THEN Returns(DataFrame(content.data))
    ELSE Fails("ArrowInvalid", <<"Parquet magic bytes not found in footer.">>)

----------------------------------------------------------------------------
(* io_utils._read_excel_generic, _read_pdf_tables and read_dataframe *)

\* FileIOError(message) and FileIOError(message, detail=...)
FileIOError(message, detail) ==
    [type |-> "FileIOError", message |-> message, detail |-> detail,
     args |-> <<message>>]

\* the engines tried in another order
ENGINES_xlrd_first == <<"xlrd", "openpyxl", "pyxlsb", "odf">>

\* for eng in ("openpyxl", "xlrd", "pyxlsb", "odf")
ENGINES == <<"openpyxl", "xlrd", "pyxlsb", "odf">>

ExcelCall(sheet_name, engine) ==
    LibraryCall("read_excel", [sheet_name |-> sheet_name, engine |-> engine])

RECURSIVE TryEngines(_, _, _, _, _)
\* the loop over the engines after the automatic choice raised `first`: the
\* first engine that reads the buffer gives the result; when none does, the
\* bare raise re-raises the exception being handled, the first one
TryEngines(content, sheet_name, engines, first, made) ==
    IF engines = <<>> THEN Raise(first, made)
    ELSE LET r == read_excel(content, sheet_name, Some(Head(engines)))
             now == Append(made, ExcelCall(sheet_name, Some(Head(engines))))
         IN  IF Raised(r)
             THEN TryEngines(content, sheet_name, Tail(engines), first, now)
             ELSE [exc |-> NoExc, ret |-> r.ret, calls |-> now]

\* _read_excel_generic(path_or_bytes, sheet_name)
read_excel_generic(isPath, content, sheet_name) ==
    LET auto == read_excel(content, sheet_name, Nothing)
        made == <<ExcelCall(sheet_name, Nothing)>>
    IN  IF isPath \/ ~Raised(auto)
        THEN [exc |-> auto.exc, ret |-> auto.ret, calls |-> made]
        ELSE TryEngines(content, sheet_name, ENGINES, auto.exc, made)

\* a cell of an extracted table is a number: str(x).replace('.', '', 1).isdigit()
IsDigitCell(cell) ==
    LET dot == {i \in DOMAIN cell : cell[i] = "."}
        rest == IF dot = {} THEN cell
                ELSE LET i == CHOOSE k \in dot : \A j \in dot : k <= j
                     IN  SubSeq(cell, 1, i - 1) \o SubSeq(cell, i + 1, Len(cell))
    IN  IsNumericText(rest)

\* pd.DataFrame(tbl) with its first row taken as the header when at least
\* two of its cells are not numbers; columns are 0, 1, ... otherwise
FrameOfTable(tbl) ==
    LET header == tbl[1]
        nonnum == Cardinality({i \in DOMAIN header : ~IsDigitCell(header[i])})
    IN  IF tbl # <<>> /\ nonnum >= 2
        THEN [columns |-> [i \in DOMAIN header |-> Unspell(header[i], i)],
              rows |-> Tail(tbl)]
        ELSE [columns |-> [i \in 1..(IF tbl = <<>> THEN 0 ELSE Len(tbl[1])) |->
                              Digits[i]],
              rows |-> tbl]

\* how many frames have the columns of frame i
SameColumns(frames, i) ==
    Cardinality({j \in DOMAIN frames : frames[j].columns = frames[i].columns})

\* Counter(...).most_common(1): the column tuple most frames have, the first
\* one met among equals
MostCommon(frames) ==
    frames[CHOOSE i \in DOMAIN frames :
              /\ \A j \in DOMAIN frames : SameColumns(frames, i) >= SameColumns(frames, j)
              /\ \A j \in 1..(i - 1) : SameColumns(frames, j) < SameColumns(frames, i)
          ].columns

RECURSIVE ConcatRows(_)
ConcatRows(frames) ==
    IF frames = <<>> THEN <<>> ELSE Head(frames).rows \o ConcatRows(Tail(frames))

\* the dataset of a frame of text cells
DatasetOfFrame(columns, rows) ==
    [name \in Range(columns) |->
        LET c == CHOOSE k \in DOMAIN columns : columns[k] = name
        IN  [i \in DOMAIN rows |-> Str(rows[i][c])]]

\* _read_pdf_tables(path_or_bytes); installed says whether pdfplumber can be
\* imported.  The cells of the model's tables are never empty, so the two
\* dropna calls keep everything, and concat is given frames of equal
\* columns, so the except clause after it is not entered.
read_pdf_tables(content, installed) ==
    LET open == LibraryCall("pdfplumber.open", EmptyDict)
        frames == [i \in DOMAIN content.tables |-> FrameOfTable(content.tables[i])]
        common == MostCommon(frames)
        compatibles == SelectSeq(frames, LAMBDA f : f.columns = common)
    IN  IF ~installed
        THEN Raise(FileIOError(
                     <<"Soporte PDF no disponible. Instala 'pdfplumber' en requirements.txt">>,
                     Some(<<"No module named 'pdfplumber'">>)), <<>>)
        ELSE IF content.kind = "missing"
        THEN Raise(FileIOError(<<"Error leyendo PDF">>,
                               Some(<<"[Errno 2] No such file or directory">>)),
                   <<open>>)
        ELSE IF content.kind # "pdf"
        THEN Raise(FileIOError(<<"Error leyendo PDF">>,
                               Some(<<"No /Root object! - Is this really a PDF?">>)),
                   <<open>>)
        ELSE IF frames = <<>>
        THEN Raise(FileIOError(<<"No se detectaron tablas en el PDF">>, Nothing),
                   <<open>>)
        ELSE [exc |-> NoExc,
              ret |-> DataFrame(DatasetOfFrame(common, ConcatRows(compatibles))),
              calls |-> <<open>>]

\* Path(...).suffix.lower() for the suffixes of the model
Lower(suffix) ==
    CASE suffix = ".XLSX" -> ".xlsx"
      [] suffix = ".Xls" -> ".xls"
      [] suffix = ".PDF" -> ".pdf"
      [] suffix = ".CSV" -> ".csv"
      [] OTHER -> suffix

\* the suffixes read as spreadsheets
EXCEL_SUFFIXES == {".xlsx", ".xls", ".xlsm", ".xlsb", ".ods"}

CsvCall(sep, encoding) ==
    LibraryCall("read_csv", [sep |-> sep, encoding |-> encoding])

\* a call with the calls of its caller put before its own
After(made, r) == [exc |-> r.exc, ret |-> r.ret, calls |-> made \o r.calls]

\* one library call and its outcome
Made(call, r) == [exc |-> r.exc, ret |-> r.ret, calls |-> <<call>>]

\* a choice that lets the sniffed delimiter override the one given
DelimiterSniffedFirst(delimiter, sniff) ==
    IF sniff.some THEN sniff.v ELSE IF delimiter.some THEN delimiter.v ELSE ","

\* sep = delimiter; if sep is None: sep = _sniff_delimiter(sample) or ","
\* (sniff is only computed when no delimiter is given)
DelimiterUsed(delimiter, sniff) ==
    IF delimiter.some THEN delimiter.v ELSE IF sniff.some THEN sniff.v ELSE ","

\* a suffix test that does not lower the case
SuffixAsWritten(suffix) == suffix

\* ext = Path(...).suffix.lower()
SuffixLower(suffix) == Lower(suffix)

\* the body of read_dataframe's try block.  path_or_bytes is a record: isPath,
\* the suffix of the path, and the content of the file or buffer; file_name
\* is the suffix of the name given, if any; installed says whether
\* pdfplumber can be imported.
read_dataframe_try(path_or_bytes, delimiter, sheet_name, file_name, installed) ==
    LET content == path_or_bytes.content
        ext == IF path_or_bytes.isPath THEN Some(SuffixLower(path_or_bytes.suffix))
               ELSE IF file_name.some THEN Some(SuffixLower(file_name.v))
               ELSE Nothing
        pdf == LibraryCall("_read_pdf_tables", EmptyDict)
        sample == SubSeq(content.bytes, 1, Min(Len(content.bytes), SAMPLE_SIZE))
        sniff == IF content.kind = "text" THEN sniff_delimiter(sample)
                 ELSE content.sniff
        sep == DelimiterUsed(delimiter, sniff)
        sniffed == IF delimiter.some THEN <<>>
                   ELSE <<LibraryCall("_sniff_delimiter", EmptyDict)>>
        utf8 == read_csv(content, sep, "utf-8")
        latin1 == read_csv(content, sep, "latin-1")
    IN  IF path_or_bytes.isPath
        THEN IF ext.v \in EXCEL_SUFFIXES
             THEN Made(ExcelCall(sheet_name, Nothing),
                       read_excel(content, sheet_name, Nothing))
             ELSE IF ext.v = ".pdf"
             THEN After(<<pdf>>, read_pdf_tables(content, installed))
             ELSE IF ext.v = ".parquet"
             THEN Made(LibraryCall("read_parquet", EmptyDict), read_parquet(content))
             ELSE Made(CsvCall(IF delimiter.some THEN delimiter.v ELSE ",", Nothing),
                       read_csv(content, IF delimiter.some THEN delimiter.v ELSE ",",
                                "utf-8"))
        ELSE IF ext = Some(".pdf")
        THEN After(<<pdf>>, read_pdf_tables(content, installed))
        ELSE IF ~Raised(utf8)
        THEN After(sniffed, Made(CsvCall(sep, Nothing), utf8))
        ELSE IF ~Raised(latin1)
        THEN After(sniffed \o <<CsvCall(sep, Nothing)>>,
                   Made(CsvCall(sep, Some("latin-1")), latin1))
        ELSE After(sniffed \o <<CsvCall(sep, Nothing), CsvCall(sep, Some("latin-1"))>>,
                   read_excel_generic(FALSE, content, sheet_name))

\* read_dataframe without its except clause
read_dataframe_unguarded(path_or_bytes, delimiter, sheet_name, file_name, installed) ==
    read_dataframe_try(path_or_bytes, delimiter, sheet_name, file_name, installed)

\* read_dataframe(path_or_bytes, delimiter, sheet_name, file_name)
read_dataframe(path_or_bytes, delimiter, sheet_name, file_name, installed) ==
    LET r == read_dataframe_try(path_or_bytes, delimiter, sheet_name, file_name,
                                installed)
    IN  IF Raised(r)
        THEN Raise(FileIOError(<<"No se pudo leer el archivo">>, Some(str(r.exc))),
                   r.calls)
        ELSE r

----------------------------------------------------------------------------
(* Files and buffers handed to read_dataframe *)

\* data rows of the delimited-text tables
MaxCsvRows == 2

\* the rows of tests/test_file_formats.py, followed by two more of the kind
CsvRows ==
    <<[mes |-> "Enero", cat |-> "A", q |-> 1, total |-> 10, isv |-> 2, u |-> 3],
      [mes |-> "Febrero", cat |-> "B", q |-> 2, total |-> 20, isv |-> 3, u |-> 6],
      [mes |-> "Marzo", cat |-> "A", q |-> 3, total |-> 30, isv |-> 5, u |-> 9],
      [mes |-> "Abril", cat |-> "B", q |-> 4, total |-> 40, isv |-> 6, u |-> 12]>>

CsvCell(r, c) ==
    CASE c = "Mes" -> Str(<<r.mes>>)
      [] c = "Categoría" -> Str(<<r.cat>>)
      [] c = "Cantidad Vendida" -> Num(r.q)
      [] c = "Ingreso Total" -> Num(r.total)
      [] c = "ISV" -> Num(r.isv)
      [] OTHER -> Num(r.u)

\* the table of the first n rows
MinimalTable(n) ==
    [c \in Range(REQUIRED_COLUMNS) |-> [i \in 1..n |-> CsvCell(CsvRows[i], c)]]

\* the characters of a cell as to_csv writes it
CellText(cell) == IF IsNum(cell) THEN StrOfInt(cell.n) ELSE Spelling[cell.s[1]]

RECURSIVE JoinTexts(_, _)
\* sep.join(texts) for texts that are sequences of characters
JoinTexts(texts, sep) ==
    IF texts = <<>> THEN <<>>
    ELSE IF Len(texts) = 1 THEN texts[1]
    ELSE texts[1] \o <<sep>> \o JoinTexts(Tail(texts), sep)

\* the table written as delimited text: a header line and one line per row,
\* each ended by a newline
ToCsv(d, columns, sep) ==
    Flatten([i \in 1..(NRows(d) + 1) |->
        JoinTexts([k \in DOMAIN columns |->
                      IF i = 1 THEN Spelling[columns[k]]
                      ELSE CellText(d[columns[k]][i - 1])], sep)
        \o <<"\n">>])

\* a delimited-text buffer and what it was written from
TextContent(n, sep, encoding) ==
    [kind |-> "text",
     bytes |-> Encode(ToCsv(MinimalTable(n), REQUIRED_COLUMNS, sep), encoding),
     rows |-> n, sep |-> sep, encoding |-> encoding]

EmptyContent == [kind |-> "text", bytes |-> <<>>, rows |-> 0, sep |-> ",",
                 encoding |-> "utf-8"]

\* a buffer longer than the sniffer's sample: one line whose semicolon is
\* within the first 4096 bytes and whose commas are beyond them
LongContent ==
    [kind |-> "text",
     bytes |-> <<"x", ";">> \o [i \in 1..4100 |-> "y"] \o <<",", ",", ",", "\n">>,
     rows |-> 0, sep |-> ";", encoding |-> "utf-8"]

DELIMITERS == {",", ";", "\t"}

TextContents(maxRows) ==
    {TextContent(n, sep, encoding) :
        n \in 1..maxRows, sep \in DELIMITERS, encoding \in {"utf-8", "latin-1"}}

\* tests/test_file_formats.py: the sheets 'Datos' and 'Otra', the second a
\* copy of the first with other months (values in whole numbers, as in the
\* delimited-text tests)
SheetDatos == MinimalTable(2)

SheetOtra ==
    [c \in Range(REQUIRED_COLUMNS) |->
        [i \in 1..2 |-> CsvCell(CsvRows[IF c = "Mes" THEN i + 2 ELSE i], c)]]

\* Binary contents.  What the text parser makes of their bytes is not
\* computed: sniff is what the sniffer returns for them and latin1 whether
\* the Latin-1 parse raises or yields a frame.
BinaryOutcomes == [sniff : {Nothing, Some(";")}, latin1 : {"raises", "parses"}]

Workbooks ==
    {[kind |-> "workbook", format |-> "xlsx", sheets |-> sheets,
      sniff |-> o.sniff, latin1 |-> o.latin1] :
        sheets \in {<<[name |-> "Datos", data |-> SheetDatos]>>,
                    <<[name |-> "Datos", data |-> SheetDatos],
                      [name |-> "Otra", data |-> SheetOtra]>>},
        o \in BinaryOutcomes}

\* an extracted table: the header row and one row of cells
PdfTable(columns, row) ==
    <<[k \in DOMAIN columns |-> Spelling[columns[k]]],
      [k \in DOMAIN columns |-> CellText(CsvCell(CsvRows[row], columns[k]))]>>

Pdfs ==
    {[kind |-> "pdf", tables |-> tables, sniff |-> o.sniff, latin1 |-> o.latin1] :
        tables \in {<<>>,
                    <<PdfTable(REQUIRED_COLUMNS, 1)>>,
                    <<PdfTable(<<"Mes", "ISV">>, 1), PdfTable(REQUIRED_COLUMNS, 2)>>,
                    <<PdfTable(<<"Mes", "ISV">>, 1),
                      PdfTable(REQUIRED_COLUMNS, 1),
                      PdfTable(REQUIRED_COLUMNS, 2)>>},
        o \in BinaryOutcomes}

Parquets ==
    {[kind |-> "parquet", data |-> SheetDatos, sniff |-> o.sniff, latin1 |-> o.latin1] :
        o \in BinaryOutcomes}

Missing == [kind |-> "missing"]

SHEET_SELECTORS ==
    {NoSheet, ByName("Datos"), ByName("Otra"), ByName("Falta"), ByIndex(0), ByIndex(5)}

SUFFIXES ==
    {".xlsx", ".XLSX", ".xls", ".Xls", ".xlsm", ".xlsb", ".ods", ".parquet",
     ".pdf", ".PDF", ".csv", ".CSV", ".txt", ""}

Hints == {Nothing} \cup {Some(d) : d \in DELIMITERS}


\* the calls of tests/test_file_formats.py and their neighbours: a buffer of
\* delimited text, a buffer of another format, a path
ReaderCalls(maxRows) ==
    {[path_or_bytes |-> [isPath |-> FALSE, suffix |-> "", content |-> c],
      delimiter |-> d, sheet_name |-> NoSheet, file_name |-> f, installed |-> TRUE] :
        c \in TextContents(maxRows) \cup {EmptyContent, LongContent}, d \in Hints,
        f \in {Nothing, Some(".csv")}}
    \cup
    {[path_or_bytes |-> [isPath |-> FALSE, suffix |-> "", content |-> c],
      delimiter |-> d, sheet_name |-> s, file_name |-> f, installed |-> i] :
        c \in Workbooks \cup Pdfs \cup Parquets, d \in {Nothing, Some(",")},
        s \in SHEET_SELECTORS, f \in {Nothing, Some(".xlsx"), Some(".PDF")},
        i \in BOOLEAN}
    \cup
    {[path_or_bytes |-> [isPath |-> TRUE, suffix |-> x, content |-> c],
      delimiter |-> d, sheet_name |-> s, file_name |-> Nothing, installed |-> i] :
        x \in SUFFIXES,
        c \in {TextContent(maxRows, ",", "utf-8"), TextContent(maxRows, ";", "utf-8"),
               TextContent(maxRows, ";", "latin-1"), Missing,
               CHOOSE w \in Workbooks : Len(w.sheets) = 2 /\ ~w.sniff.some
                                        /\ w.latin1 = "raises",
               CHOOSE p \in Pdfs : Len(p.tables) = 3 /\ ~p.sniff.some
                                   /\ p.latin1 = "raises",
               CHOOSE q \in Parquets : ~q.sniff.some /\ q.latin1 = "raises"},
        d \in {Nothing, Some(";")},
        s \in {NoSheet, ByName("Otra"), ByName("Falta")}, i \in BOOLEAN}

InitReader ==
    /\ pc = "input"
    /\ args \in ReaderCalls(MaxCsvRows)
    /\ df = None /\ df0 = None
    /\ source = None /\ numeric_cols = <<>> /\ exc = NoExc /\ ret = None
    /\ dfn = None /\ metricas = None /\ series = None /\ ran = {}
    /\ calls = <<>> /\ np_random = 0 /\ prev = None
    /\ files = None /\ locks = None /\ handles = None /\ session = None

\* df = read_dataframe(path_or_bytes, delimiter=..., sheet_name=..., file_name=...)
CallReadDataframe ==
    /\ pc = "input"
    /\ LET r == read_dataframe(args.path_or_bytes, args.delimiter, args.sheet_name,
                               args.file_name, args.installed)
       IN  /\ exc' = r.exc
           /\ ret' = r.ret
           /\ calls' = r.calls
    /\ pc' = "returned"
    /\ UNCHANGED <<source, df, numeric_cols, dfn, metricas, series, ran, df0,
                   args, np_random, prev, stored>>

\* ok, missing = validate_schema(df), as the tests do with the table read
ValidateRead ==
    /\ pc = "returned"
    /\ exc = NoExc
    /\ ret.type = "DataFrame"
    /\ LET r == validate_schema(ret.v)
       IN  prev' = [exc |-> r.exc, ret |-> r.ret]
    /\ pc' = "validated"
    /\ UNCHANGED <<source, df, numeric_cols, exc, ret, dfn, metricas, series, ran,
                   df0, args, calls, np_random, stored>>

NextReader == CallReadDataframe \/ ValidateRead

SpecReader == InitReader /\ [][NextReader]_vars

----------------------------------------------------------------------------
(* Properties of the format reader *)

\* the call was made and has returned or raised
Read == pc # "input"

Given == args.path_or_bytes

\* a buffer of delimited text written from a table of at least one row
TextBuffer ==
    /\ ~Given.isPath
    /\ Given.content.kind = "text"
    /\ Given.content.rows > 0

\* the delimiter is left to the sniffer or given as the one the text uses
DelimiterFits == args.delimiter \in {Nothing, Some(Given.content.sep)}

\* C17: a minimal valid table written as delimited text with a comma, a
\* semicolon or a tab and encoded as UTF-8 or Latin-1, read from bytes with
\* that delimiter given or with none given, comes back as the table written
\* (the same columns and rows whatever the delimiter and encoding), and the
\* table read passes validate_schema.
C17_SameTableWhateverDelimiterAndEncoding ==
    (Read /\ TextBuffer /\ DelimiterFits) =>
        /\ exc = NoExc
        /\ ret = DataFrame(MinimalTable(Given.content.rows))
        /\ pc = "validated" => prev.exc = NoExc

\* the scenario of test_read_csv_semicolon_auto_delimiter, here in Latin-1:
\* two rows, semicolons, no hint, read and validated
C17_Witness ==
    /\ pc = "validated"
    /\ TextBuffer
    /\ Given.content.sep = ";" /\ Given.content.encoding = "latin-1"
    /\ Given.content.rows = 2
    /\ args.delimiter = Nothing
    /\ <<"_sniff_delimiter", "read_csv", "read_csv">> = [i \in DOMAIN calls |-> calls[i].fn]
    /\ NRows(ret.v) = 2
    /\ prev.exc = NoExc

\* C18: whatever read_dataframe is given, by path or as bytes, the only
\* exception that leaves it is FileIOError, and its detail is a text that is
\* not empty: the text of the exception that stopped the reading.
C18_OnlyFileIOErrorWithDetail ==
    (Read /\ exc # NoExc) =>
        /\ exc.type = "FileIOError"
        /\ exc.message = <<"No se pudo leer el archivo">>
        /\ exc.detail.some
        /\ exc.detail.v # <<>>

\* the failures named: an empty buffer, a PDF with no table, an absent sheet
EmptyFileFailed ==
    Read /\ ~Given.isPath /\ Given.content = EmptyContent /\ exc.type = "FileIOError"

NoTablesFailed ==
    /\ Read /\ Given.content.kind = "pdf" /\ Given.content.tables = <<>>
    /\ exc.type = "FileIOError"
    /\ exc.detail = Some(<<"No se detectaron tablas en el PDF">>)

AbsentSheetFailed ==
    /\ Read /\ Given.content.kind = "workbook" /\ args.sheet_name = ByName("Falta")
    /\ exc.type = "FileIOError"
    /\ exc.detail = Some(<<"Worksheet named '", "Falta", "' not found">>)

C18_Witness == NoTablesFailed /\ ~Given.isPath

C18_WitnessEmpty == EmptyFileFailed

C18_WitnessSheet == AbsentSheetFailed /\ Given.isPath


\* the one reader a path is handed to, by its suffix in lower case
ReaderOfPath ==
    LET ext == Lower(Given.suffix)
    IN  IF ext \in {".xlsx", ".xls", ".xlsm", ".xlsb", ".ods"}
        THEN LibraryCall("read_excel",
                         [sheet_name |-> args.sheet_name, engine |-> Nothing])
        ELSE IF ext = ".parquet" THEN LibraryCall("read_parquet", EmptyDict)
        ELSE IF ext = ".pdf" THEN LibraryCall("_read_pdf_tables", EmptyDict)
        ELSE LibraryCall("read_csv",
                         [sep |-> IF args.delimiter.some THEN args.delimiter.v ELSE ",",
                          encoding |-> Nothing])

\* the readers read_dataframe may hand its input to
READERS == {"read_excel", "read_parquet", "_read_pdf_tables", "read_csv"}

C19_WitnessUpperCase ==
    /\ Read /\ Given.isPath
    /\ Given.suffix = ".XLSX"
    /\ Given.content.kind = "workbook"
    /\ args.sheet_name = ByName("Otra")
    /\ calls = <<LibraryCall("read_excel",
                             [sheet_name |-> ByName("Otra"), engine |-> Nothing])>>
    /\ ret = DataFrame(SheetOtra)

\* the spreadsheet reader was the one that gave the result
ReadAsSpreadsheet ==
    /\ Read /\ exc = NoExc
    /\ Given.content.kind = "workbook"
    /\ calls # <<>> /\ calls[Len(calls)].fn = "read_excel"

\* C20 as stated: a spreadsheet read with no sheet selector, by path or
\* from bytes through the Excel fallback, gives one table, that of the first
\* sheet; read with a sheet name it gives the rows of that sheet.
C20_FirstSheetWhenNoneGiven ==
    ReadAsSpreadsheet =>
        /\ ret.type = "DataFrame"
        /\ args.sheet_name = NoSheet => ret.v = Given.content.sheets[1].data
        /\ args.sheet_name.by = "name" =>
              ret.v = SheetsByName(Given.content.sheets)[args.sheet_name.name]

\* what the code does: with a sheet name, the table of that sheet; with no
\* selector, the collection of all the sheets by name
C20_AllSheetsWhenNoneGiven ==
    ReadAsSpreadsheet =>
        /\ args.sheet_name = NoSheet =>
              ret = DictOfSheets(SheetsByName(Given.content.sheets))
        /\ args.sheet_name.by = "name" =>
              ret = DataFrame(SheetsByName(Given.content.sheets)[args.sheet_name.name])

\* the workbook of two sheets read from bytes with no selector: a dict
C20_DictReturned ==
    /\ ReadAsSpreadsheet
    /\ ~Given.isPath
    /\ Len(Given.content.sheets) = 2
    /\ args.sheet_name = NoSheet
    /\ ret.type = "dict"
    /\ DOMAIN ret.v = {"Datos", "Otra"}

\* the same by path
C20_DictReturnedByPath ==
    /\ ReadAsSpreadsheet
    /\ Given.isPath
    /\ args.sheet_name = NoSheet
    /\ ret.type = "dict"

\* test_read_excel_multi_sheet_selection_and_list_sheets
C20_NamedSheetReturned ==
    /\ ReadAsSpreadsheet
    /\ ~Given.isPath
    /\ args.sheet_name = ByName("Otra")
    /\ ret = DataFrame(SheetOtra)


\* a buffer that is not handed to the PDF extraction
BytesNotPdf ==
    /\ Read /\ ~Given.isPath
    /\ ~(args.file_name.some /\ Lower(args.file_name.v) = ".pdf")

\* the reader calls made, the sniffer's left out
Tried == SelectSeq(calls, LAMBDA c : c.fn # "_sniff_delimiter")

\* the strategies for a buffer, in order, for a delimiter and sheet selector
Strategies(sep, sheet) ==
    <<LibraryCall("read_csv", [sep |-> sep, encoding |-> Nothing]),
      LibraryCall("read_csv", [sep |-> sep, encoding |-> Some("latin-1")]),
      LibraryCall("read_excel", [sheet_name |-> sheet, engine |-> Nothing]),
      LibraryCall("read_excel", [sheet_name |-> sheet, engine |-> Some("openpyxl")]),
      LibraryCall("read_excel", [sheet_name |-> sheet, engine |-> Some("xlrd")]),
      LibraryCall("read_excel", [sheet_name |-> sheet, engine |-> Some("pyxlsb")]),
      LibraryCall("read_excel", [sheet_name |-> sheet, engine |-> Some("odf")])>>

\* what a strategy gives for the buffer
StrategyOutcome(call) ==
    IF call.fn = "read_csv"
    THEN read_csv(Given.content, call.kw.sep,
                  IF call.kw.encoding.some THEN "latin-1" ELSE "utf-8")
    ELSE read_excel(Given.content, call.kw.sheet_name, call.kw.engine)

\* C23: for a buffer not handed to the PDF extraction the readers are called
\* in the order: delimited text in the default encoding, delimited text in
\* Latin-1 with the same delimiter, the spreadsheet reader with the automatic
\* engine, then with openpyxl, xlrd, pyxlsb and odf.  A reader is called only
\* when each one before it raised, and the result is that of the first reader
\* that does not raise; when all raise the call fails.
C23_StrategiesInOrder ==
    BytesNotPdf =>
        /\ Tried # <<>>
        /\ Tried = SubSeq(Strategies(Tried[1].kw.sep, args.sheet_name), 1, Len(Tried))
        /\ \A i \in 1..(Len(Tried) - 1) : Raised(StrategyOutcome(Tried[i]))
        /\ exc = NoExc =>
              /\ ~Raised(StrategyOutcome(Tried[Len(Tried)]))
              /\ ret = StrategyOutcome(Tried[Len(Tried)]).ret
        /\ exc # NoExc =>
              /\ Len(Tried) = 7
              /\ Raised(StrategyOutcome(Tried[7]))

\* a workbook whose bytes no text parse accepts, read with the sheet 'Otra':
\* two text attempts, then the spreadsheet reader
C23_Witness ==
    /\ BytesNotPdf
    /\ Given.content.kind = "workbook"
    /\ args.sheet_name = ByName("Otra")
    /\ args.delimiter = Some(",")
    /\ Tried = SubSeq(Strategies(",", ByName("Otra")), 1, 3)
    /\ ret = DataFrame(SheetOtra)

\* every strategy tried and failed
C23_WitnessAllFail ==
    /\ BytesNotPdf
    /\ Len(Tried) = 7
    /\ exc.type = "FileIOError"

\* the sniffer was asked
Sniffed == \E i \in DOMAIN calls : calls[i].fn = "_sniff_delimiter"

\* what the sniffer finds in the first 4096 bytes of the buffer
SniffOfSample ==
    IF Given.content.kind = "text"
    THEN guess_delimiter(
             DecodeUtf8(SubSeq(Given.content.bytes, 1,
                               IF Len(Given.content.bytes) < 4096
                               THEN Len(Given.content.bytes) ELSE 4096),
                        "ignore").v)
    ELSE Given.content.sniff

\* C24: for a buffer, a delimiter given is the one every text read uses and
\* the sniffer is not asked; with none given the sniffer is asked first and
\* the text reads use the delimiter it finds in the first 4096 bytes, or a
\* comma when it finds none.
C24_DelimiterGivenOrSniffedOrComma ==
    BytesNotPdf =>
        /\ Sniffed <=> ~args.delimiter.some
        /\ Sniffed => calls[1].fn = "_sniff_delimiter"
        /\ \A i \in DOMAIN calls :
              calls[i].fn = "read_csv" =>
                  calls[i].kw.sep =
                      IF args.delimiter.some THEN args.delimiter.v
                      ELSE IF SniffOfSample.some THEN SniffOfSample.v
                      ELSE ","

\* a semicolon text read with a comma given: the comma is used
C24_Witness ==
    /\ BytesNotPdf
    /\ Given.content.kind = "text" /\ Given.content.sep = ";" /\ Given.content.rows = 2
    /\ args.delimiter = Some(",")
    /\ ~Sniffed
    /\ Tried[1].kw.sep = ","
    /\ exc = NoExc

\* nothing to sniff in an empty buffer: comma
C24_WitnessComma ==
    /\ BytesNotPdf
    /\ Given.content = EmptyContent
    /\ args.delimiter = Nothing
    /\ Sniffed
    /\ Tried[1].kw.sep = ","

\* a tab found by the sniffer
C24_WitnessSniffed ==
    /\ BytesNotPdf
    /\ Given.content.kind = "text" /\ Given.content.sep = "\t"
    /\ args.delimiter = Nothing
    /\ Sniffed
    /\ Tried[1].kw.sep = "\t"
    /\ exc = NoExc

\* the buffer longer than the sample: the semicolon of its first 4096 bytes
\* is used, not the comma the whole text would give
C24_WitnessLong ==
    /\ BytesNotPdf
    /\ Given.content = LongContent
    /\ args.delimiter = Nothing
    /\ guess_delimiter(Given.content.bytes) = Some(",")
    /\ Tried[1].kw.sep = ";"
    /\ exc = NoExc


\* a PDF of several tables was read
PdfRead ==
    /\ Read /\ exc = NoExc
    /\ Given.content.kind = "pdf"
    /\ calls # <<>> /\ calls[1].fn = "_read_pdf_tables"
    /\ Len(Given.content.tables) >= 2

\* the frames of the tables of the PDF, in page order
PdfFrames == [i \in DOMAIN Given.content.tables |-> FrameOfTable(Given.content.tables[i])]

\* how many tables have the column names of table i
Sharing(i) ==
    Cardinality({j \in DOMAIN PdfFrames : PdfFrames[j].columns = PdfFrames[i].columns})

\* rows times columns of table i
TableSize(i) == Len(PdfFrames[i].rows) * Len(PdfFrames[i].columns)

\* the tables of the column names of table i, one after another
TablesLike(i) ==
    DataFrame(DatasetOfFrame(PdfFrames[i].columns,
        ConcatRows(SelectSeq(PdfFrames, LAMBDA f : f.columns = PdfFrames[i].columns))))

\* the first table among those whose column names most tables have
MostShared ==
    CHOOSE i \in DOMAIN PdfFrames :
        /\ \A j \in DOMAIN PdfFrames : Sharing(i) >= Sharing(j)
        /\ \A j \in 1..(i - 1) : Sharing(j) < Sharing(i)

\* the first table among the largest
LargestTable ==
    CHOOSE i \in DOMAIN PdfFrames :
        /\ \A j \in DOMAIN PdfFrames : TableSize(i) >= TableSize(j)
        /\ \A j \in 1..(i - 1) : TableSize(j) < TableSize(i)

\* C25 as stated: of the several tables of a PDF, _read_pdf_tables returns
\* those of the most common column names, one after another in page order;
\* when no two tables have the same column names it returns the largest
\* table by rows times columns.
C25_MostCommonElseLargest ==
    PdfRead =>
        ret = IF Sharing(MostShared) >= 2 THEN TablesLike(MostShared)
              ELSE TablesLike(LargestTable)

\* what the code does: the tables of the most common column names, and the
\* first table when no two tables have the same column names
C25_MostCommonElseFirst ==
    PdfRead =>
        ret = IF Sharing(MostShared) >= 2 THEN TablesLike(MostShared)
              ELSE TablesLike(1)

\* a small table followed by a larger one of other columns: the small one
\* is returned
C25_FirstTableReturned ==
    /\ PdfRead
    /\ Sharing(MostShared) = 1
    /\ LargestTable = 2
    /\ ret = TablesLike(1)
    /\ Columns(ret.v) = {"Mes", "ISV"}

\* two of three tables share their columns: those two, in page order
C25_SharedConcatenated ==
    /\ PdfRead
    /\ Sharing(MostShared) = 2
    /\ NRows(ret.v) = 2
    /\ Columns(ret.v) = Range(REQUIRED_COLUMNS)
    /\ ret.v["Mes"] = <<Str(Spelling["Enero"]), Str(Spelling["Febrero"])>>

----------------------------------------------------------------------------
(* calcular_metricas_resumen and resumen_metricas called on any dataset *)

InitMetricas ==
    /\ pc = "input"
    /\ df \in SchemaDatasets \cup AggDatasets(MaxRows)
    /\ df0 = df
    /\ source = None /\ numeric_cols = VARIABLES_NUM /\ exc = NoExc /\ ret = None
    /\ dfn = None /\ metricas = None /\ series = None /\ ran = {}
    /\ args = None /\ calls = <<>> /\ np_random = 0 /\ prev = None
    /\ files = None /\ locks = None /\ handles = None /\ session = None

\* resumen_metricas(df), called as processing.py exports it
CallResumen ==
    /\ pc = "input"
    /\ LET r == resumen_metricas(df)
       IN  /\ exc' = r.exc
           /\ ret' = r.ret
    /\ ran' = ran \cup {"resumen_metricas"}
    /\ pc' = "direct"
    /\ UNCHANGED <<source, df, numeric_cols, dfn, metricas, series, df0, others>>

\* metricas = calcular_metricas_resumen(df), on the same dataset
CallCalcular ==
    /\ pc = "direct"
    /\ metricas' = calcular_metricas_resumen(df)
    /\ ran' = ran \cup {"calcular_metricas_resumen"}
    /\ pc' = "wrapped"
    /\ UNCHANGED <<source, df, numeric_cols, exc, ret, dfn, series, df0, others>>

NextMetricas == CallResumen \/ CallCalcular

SpecMetricas == InitMetricas /\ [][NextMetricas]_vars

----------------------------------------------------------------------------
(* Properties: the summary metrics wrapper *)

\* the dataset lacks a column the summary reads, or a summed column holds text
ResumenCannotCompute ==
    \/ \E i \in DOMAIN ResumenReads : ResumenReads[i] \notin Columns(df)
    \/ \E c \in {"Ingreso Total", "ISV", "Utilidad Bruta", "Cantidad Vendida"} :
          c \in Columns(df) /\ ~Summable(df[c])

C26_WitnessComplete ==
    /\ pc = "wrapped"
    /\ ~Raised([exc |-> exc])
    /\ DOMAIN metricas = MetricKeys
    /\ Len(df["Mes"]) = MaxRows

\* a summed column of text made resumen_metricas raise
C26_WitnessText ==
    /\ pc = "wrapped"
    /\ exc.type = "TypeError"
    /\ DOMAIN metricas = {}

----------------------------------------------------------------------------
(* Properties: what validar_columnas returns *)

\* C27: validar_columnas returns (True, empty set) for a valid dataset and
\* otherwise (False, S), S being exactly the required columns the dataset
\* lacks, never empty.
C27_MissingColumnsReturned ==
    "validate" \in ran =>
        IF MissingColumns(df) = <<>> THEN ret = <<TRUE, {}>>
        ELSE ret = <<FALSE, Range(MissingColumns(df))>>

\* what the code does: the flag is right, the set is empty in both cases
C27_FlagOnly ==
    "validate" \in ran => ret = <<MissingColumns(df) = <<>>, {}>>

\* a dataset without ISV was rejected with an empty set of missing columns
C27_EmptySetOnInvalid ==
    /\ "validate" \in ran
    /\ "ISV" \notin Columns(df)
    /\ ret = <<FALSE, {}>>

\* a valid dataset was accepted
C27_ValidAccepted ==
    /\ "validate" \in ran
    /\ MissingColumns(df) = <<>>
    /\ ret = <<TRUE, {}>>

----------------------------------------------------------------------------
(* Properties: the local fallback of load_dataframe *)

\* a file of an extension load_dataframe reads was given and reading it raised
UploadFailed ==
    /\ source.kind # "none"
    /\ source.ext \in {"csv", "xlsx", "xls"}
    /\ ~args.read.some

\* a file was given and it was read
UploadRead ==
    /\ source.kind # "none"
    /\ source.ext \in {"csv", "xlsx", "xls"}
    /\ args.read.some

Loaded == "read" \in ran /\ pc = "loaded"

\* C28: when loading the given file fails load_dataframe returns the local
\* sample data, and it returns (None, "") only when neither the file nor the
\* local data can be had.
C28_FallbackWhenUploadFails ==
    Loaded =>
        /\ UploadFailed /\ args.local.some =>
              ret = args.local /\ args.origin = "datosExcel"
        /\ ~ret.some => ~UploadRead /\ ~args.local.some

\* what the code does: the local data are used only when no file of a known
\* extension is given, and a file that cannot be read gives (None, "")
C28_FallbackOnlyWithoutUpload ==
    Loaded =>
        /\ UploadRead => ret = args.read /\ args.origin = "file_name"
        /\ UploadFailed => ~ret.some /\ args.origin = ""
        /\ ~UploadRead /\ ~UploadFailed =>
              ret = args.local /\ args.origin = (IF args.local.some THEN "datosExcel" ELSE "")

\* the file could not be read, local data were there, and nothing was returned
C28_NoFallbackAfterFailure ==
    /\ Loaded
    /\ UploadFailed
    /\ args.local.some
    /\ ~ret.some /\ args.origin = ""

\* no file given: the local data were returned
C28_FallbackWithoutUpload ==
    /\ Loaded
    /\ source.kind = "none"
    /\ args.local.some
    /\ ret = args.local

----------------------------------------------------------------------------
(* tour_interactivo.py: the guided tour, one script run per button pressed *)

\* len(crear_pasos_tour())
NumPasos == 12

\* the buttons pressed in one behaviour
MaxPresses == 14

\* st.session_state before the first run of the script has neither key
FreshSession == None

\* if st.session_state["tour_activo"] and st.session_state["tour_paso"] < len(pasos)
NavShown(s) == s.tour_activo /\ s.tour_paso < NumPasos

\* an Anterior button that is never disabled
AnteriorAlwaysEnabled(s) == FALSE

\* st.button("Anterior", disabled=(st.session_state["tour_paso"] == 0))
AnteriorDisabled(s) == s.tour_paso = 0

\* if st.session_state["tour_paso"] < len(pasos) - 1: Siguiente, else: Finalizar
SiguienteShown(s) == s.tour_paso < NumPasos - 1

InitTour ==
    /\ pc = "fresh"
    /\ session = FreshSession
    /\ args = [button |-> "", presses |-> 0]
    /\ prev = None
    /\ source = None /\ df = <<>> /\ df0 = <<>>
    /\ numeric_cols = <<>> /\ exc = NoExc /\ ret = None
    /\ dfn = None /\ metricas = None /\ series = None /\ ran = {}
    /\ calls = <<>> /\ np_random = 0
    /\ files = None /\ locks = None /\ handles = None

\* everything a press leaves alone
TourUnchanged ==
    UNCHANGED <<source, df, numeric_cols, exc, ret, dfn, metricas, series, ran, df0,
                calls, np_random, files, locks, handles>>

\* the run that follows the press of button b, the session being s afterwards
Pressed(b, s) ==
    /\ args.presses < MaxPresses
    /\ args' = [button |-> b, presses |-> args.presses + 1]
    /\ prev' = session
    /\ session' = s
    /\ pc' = "shown"
    /\ TourUnchanged

\* the first run of the script: both keys are initialised
FirstRun ==
    /\ pc = "fresh"
    /\ session' = [tour_activo |-> FALSE, tour_paso |-> 0]
    /\ pc' = "shown"
    /\ UNCHANGED <<args, prev>>
    /\ TourUnchanged

\* the sidebar button, always shown
PressTour ==
    /\ pc = "shown"
    /\ Pressed("tour", [tour_activo |-> TRUE, tour_paso |-> 0])

PressAnterior ==
    /\ pc = "shown"
    /\ NavShown(session)
    /\ ~AnteriorDisabled(session)
    /\ Pressed("anterior", [session EXCEPT !.tour_paso = @ - 1])

PressSalir ==
    /\ pc = "shown"
    /\ NavShown(session)
    /\ Pressed("salir", [session EXCEPT !.tour_activo = FALSE])

PressSiguiente ==
    /\ pc = "shown"
    /\ NavShown(session)
    /\ SiguienteShown(session)
    /\ Pressed("siguiente", [session EXCEPT !.tour_paso = @ + 1])

PressFinalizar ==
    /\ pc = "shown"
    /\ NavShown(session)
    /\ ~SiguienteShown(session)
    /\ Pressed("finalizar", [session EXCEPT !.tour_activo = FALSE])

NextTour ==
    \/ FirstRun
    \/ PressTour
    \/ PressAnterior
    \/ PressSalir
    \/ PressSiguiente
    \/ PressFinalizar

SpecTour == InitTour /\ [][NextTour]_vars

----------------------------------------------------------------------------
(* Properties: the tour *)

\* C29: tour_paso stays within 0..len(pasos)-1; starting the tour sets
\* tour_activo and tour_paso to True and 0; Anterior cannot be pressed at step
\* 0 nor Siguiente at the last step; Salir and Finalizar clear tour_activo and
\* leave tour_paso as it was; Finalizar is only offered at the last step.
C29_TourStepInRange ==
    pc = "shown" =>
        /\ session.tour_paso \in 0..(NumPasos - 1)
        /\ session.tour_activo \in BOOLEAN
        /\ args.button = "tour" => session = [tour_activo |-> TRUE, tour_paso |-> 0]
        /\ args.button = "anterior" =>
              prev.tour_paso # 0 /\ session.tour_paso = prev.tour_paso - 1
        /\ args.button = "siguiente" =>
              prev.tour_paso # NumPasos - 1 /\ session.tour_paso = prev.tour_paso + 1
        /\ args.button \in {"salir", "finalizar"} =>
              ~session.tour_activo /\ session.tour_paso = prev.tour_paso
        /\ args.button = "finalizar" => prev.tour_paso = NumPasos - 1
        /\ args.button \in {"anterior", "siguiente", "salir", "finalizar"} =>
              prev.tour_activo

\* the tour was walked to its last step and finished there
C29_Witness ==
    /\ pc = "shown"
    /\ args.button = "finalizar"
    /\ session = [tour_activo |-> FALSE, tour_paso |-> NumPasos - 1]

\* Anterior brought the tour back to step 0, where it is disabled
C29_WitnessBackToFirst ==
    /\ pc = "shown"
    /\ args.button = "anterior"
    /\ session = [tour_activo |-> TRUE, tour_paso |-> 0]
    /\ ~ENABLED PressAnterior

\* the tour was left half-way and restarted from step 0
C29_WitnessRestart ==
    /\ pc = "shown"
    /\ args.button = "tour"
    /\ ~prev.tour_activo /\ prev.tour_paso > 0
    /\ session.tour_paso = 0


----------------------------------------------------------------------------
(* io_utils.py: save_upload_safely, called by several writers at once *)

\* the calls running at once
Writers == {"w1", "w2"}

\* the failures of the operating system in one behaviour
MaxFailures == 1

\* file contents, as sequences of bytes
ContentAB == <<"a", "b">>
ContentCD == <<"c", "d">>
Contents == {ContentAB, ContentCD}

\* file names, "." being a symbol of its own: datos.csv, datos, datos.tmp
FileNames == {<<"datos", ".", "csv">>, <<"datos">>, <<"datos", ".", "tmp">>}

\* hashlib.sha256(content).hexdigest() of the contents of the model
file_sha256(content) ==
    CASE content = ContentAB ->
          <<"f", "b", "8", "e", "2", "0", "f", "c", "2", "e", "4", "c", "3", "f", "2", "4",
          "8", "c", "6", "0", "c", "3", "9", "b", "d", "6", "5", "2", "f", "3", "c", "1",
          "3", "4", "7", "2", "9", "8", "b", "b", "9", "7", "7", "b", "8", "b", "4", "d",
          "5", "9", "0", "3", "b", "8", "5", "0", "5", "5", "6", "2", "0", "6", "0", "3">>
      [] content = ContentCD ->
          <<"2", "1", "e", "7", "2", "1", "c", "3", "5", "a", "5", "8", "2", "3", "f", "d",
          "b", "4", "5", "2", "f", "a", "2", "f", "9", "f", "0", "a", "6", "1", "2", "c",
          "7", "4", "f", "b", "9", "5", "2", "e", "0", "6", "9", "2", "7", "4", "8", "9",
          "c", "6", "b", "2", "7", "a", "4", "3", "b", "8", "1", "7", "b", "e", "d", "4">>

\* the characters of the digest kept in the name
DIGEST_LENGTH == 12

\* str.rfind("."): the place of the last dot, 0 when there is none
LastDot(name) ==
    IF \A i \in DOMAIN name : name[i] # "." THEN 0
    ELSE CHOOSE i \in DOMAIN name :
             name[i] = "." /\ \A j \in (i + 1)..Len(name) : name[j] # "."

\* Path(name).suffix: from the last dot on, unless the name starts or ends there
PathSuffix(name) ==
    LET i == LastDot(name)
    IN  IF 1 < i /\ i < Len(name) THEN SubSeq(name, i, Len(name)) ELSE <<>>

\* Path(name).stem
PathStem(name) ==
    LET i == LastDot(name)
    IN  IF 1 < i /\ i < Len(name) THEN SubSeq(name, 1, i - 1) ELSE name

\* path.with_suffix(suffix)
with_suffix(name, suffix) ==
    SubSeq(name, 1, Len(name) - Len(PathSuffix(name))) \o suffix

\* a name without the digest
SafeNamePlain(filename, content) == filename

\* digest = file_sha256(content)[:12]
\* safe_name = f"{Path(filename).stem}-{digest}{Path(filename).suffix}"
SafeName(filename, content) ==
    PathStem(filename) \o <<"-">> \o SubSeq(file_sha256(content), 1, DIGEST_LENGTH)
        \o PathSuffix(filename)

\* target = UPLOADS_DIR / safe_name: every path of the model is in UPLOADS_DIR
Target(call) == SafeName(call.filename, call.content)

\* FileLock(str(target) + ".lock")
LockPath(target) == target \o <<".", "lock">>

\* tmp_path = target.with_suffix(target.suffix + ".tmp")
TmpPath(target) == with_suffix(target, PathSuffix(target) \o <<".", "tmp">>)

\* the error the operating system raises
OSError == [type |-> "OSError", message |-> <<>>, detail |-> <<>>, args |-> <<>>]

\* the directory: the paths that exist and the bytes of each
NoFiles == [p \in {} |-> <<>>]

Exists(fs, path) == path \in DOMAIN fs

\* open(path, "wb"): the file is created, or emptied if it exists
Truncated(fs, path) ==
    [p \in DOMAIN fs \cup {path} |-> IF p = path THEN <<>> ELSE fs[p]]

\* f.write: one more byte reaches the file
Appended(fs, path, byte) == [fs EXCEPT ![path] = @ \o <<byte>>]

\* os.replace(src, dst): dst becomes the file src named, src is no more
Replaced(fs, src, dst) ==
    [p \in (DOMAIN fs \cup {dst}) \ {src} |-> IF p = dst THEN fs[src] ELSE fs[p]]


\* the calls that hold no lock and write nothing: not begun, returned or raised
AtRest(w) == pc[w] \in {"idle", "done", "raised"}

\* the lock a call holds is released when its with block is left
Unlocked(w) == {l \in locks : l.owner # w}

InitUpload ==
    /\ pc = [w \in Writers |-> "idle"]
    /\ args = [w \in Writers |-> None]
    /\ ret = [w \in Writers |-> None]
    /\ exc = [w \in Writers |-> NoExc]
    /\ prev = [w \in Writers |-> None]
    /\ files = NoFiles
    /\ locks = {}
    /\ handles = [w \in Writers |-> None]
    /\ calls = <<>>
    /\ source = None /\ df = <<>> /\ df0 = <<>> /\ numeric_cols = <<>>
    /\ dfn = None /\ metricas = None /\ series = None /\ ran = {}
    /\ np_random = 0 /\ session = None

\* everything the upload store leaves alone
UploadUnchanged ==
    UNCHANGED <<source, df, numeric_cols, dfn, metricas, series, ran, df0,
                np_random, session>>

\* save_upload_safely(filename, content) is called: the names are computed.
\* prev keeps, for each call, whether it has run with no other call under way
\* and what the directory held when it returned.
CallSave(w) ==
    /\ pc[w] = "idle"
    /\ \E filename \in FileNames, content \in Contents :
          args' = [args EXCEPT ![w] = [filename |-> filename, content |-> content]]
    /\ prev' = [u \in Writers |->
                  IF u = w
                  THEN [alone |-> \A v \in Writers \ {w} : AtRest(v),
                        tmp |-> FALSE, target |-> Nothing]
                  ELSE IF AtRest(u) THEN prev[u]
                  ELSE [prev[u] EXCEPT !.alone = FALSE]]
    /\ pc' = [pc EXCEPT ![w] = "acquire"]
    /\ UNCHANGED <<exc, ret, files, locks, handles, calls>>
    /\ UploadUnchanged

\* with lock: the call waits until no other call holds the lock of its target
Acquire(w) ==
    /\ pc[w] = "acquire"
    /\ \A l \in locks : l.path # LockPath(Target(args[w]))
    /\ locks' = locks \cup {[path |-> LockPath(Target(args[w])), owner |-> w]}
    /\ pc' = [pc EXCEPT ![w] = "locked"]
    /\ UNCHANGED <<exc, ret, prev, args, files, handles, calls>>
    /\ UploadUnchanged

\* with open(tmp_path, "wb") as f
OpenTmp(w) ==
    /\ pc[w] = "locked"
    /\ LET tmp == TmpPath(Target(args[w]))
       IN  /\ files' = Truncated(files, tmp)
           /\ handles' = [handles EXCEPT ![w] = [path |-> tmp, live |-> TRUE, written |-> 0]]
    /\ pc' = [pc EXCEPT ![w] = "writing"]
    /\ UNCHANGED <<exc, ret, prev, args, locks, calls>>
    /\ UploadUnchanged

\* f.write(content); f.flush(); os.fsync(): the bytes reach the file one by
\* one; they reach no path when the file was replaced under the open handle
WriteByte(w) ==
    /\ pc[w] = "writing"
    /\ handles[w].written < Len(args[w].content)
    /\ LET h == handles[w]
       IN  /\ files' = IF h.live
                       THEN Appended(files, h.path, args[w].content[h.written + 1])
                       ELSE files
           /\ handles' = [handles EXCEPT ![w].written = @ + 1]
    /\ UNCHANGED <<pc, exc, ret, prev, args, locks, calls>>
    /\ UploadUnchanged

\* the file is closed; os.replace(tmp_path, target).  A handle another call
\* has open on the replaced target keeps the file that is no longer named.
Replace(w) ==
    /\ pc[w] = "writing"
    /\ handles[w].written = Len(args[w].content)
    /\ LET target == Target(args[w])
       IN  /\ files' = Replaced(files, TmpPath(target), target)
           /\ handles' = [u \in Writers |->
                            IF u = w THEN None
                            ELSE IF handles[u] # None /\ handles[u].path = target
                            THEN [handles[u] EXCEPT !.live = FALSE]
                            ELSE handles[u]]
    /\ pc' = [pc EXCEPT ![w] = "replaced"]
    /\ UNCHANGED <<exc, ret, prev, args, locks, calls>>
    /\ UploadUnchanged

\* the with block is left and target is returned
Return(w) ==
    /\ pc[w] = "replaced"
    /\ LET target == Target(args[w])
       IN  /\ ret' = [ret EXCEPT ![w] = target]
           /\ prev' = [prev EXCEPT ![w] =
                          [alone |-> prev[w].alone,
                           tmp |-> Exists(files, TmpPath(target)),
                           target |-> IF Exists(files, target) THEN Some(files[target])
                                      ELSE Nothing]]
    /\ locks' = Unlocked(w)
    /\ pc' = [pc EXCEPT ![w] = "done"]
    /\ UNCHANGED <<exc, args, files, handles, calls>>
    /\ UploadUnchanged

\* the lock file cannot be created or locked: the error leaves the function
LockFails(w) ==
    /\ pc[w] = "acquire"
    /\ Len(calls) < MaxFailures
    /\ calls' = Append(calls, [writer |-> w, failed |-> "lock"])
    /\ exc' = [exc EXCEPT ![w] = OSError]
    /\ pc' = [pc EXCEPT ![w] = "raised"]
    /\ UNCHANGED <<ret, prev, args, files, locks, handles>>
    /\ UploadUnchanged

\* open, write, flush, fsync or os.replace fails: the file is closed, the lock
\* released, and the error leaves the function; the temporary file stays
WriteFails(w) ==
    /\ pc[w] \in {"locked", "writing"}
    /\ Len(calls) < MaxFailures
    /\ calls' = Append(calls, [writer |-> w, failed |-> "write"])
    /\ exc' = [exc EXCEPT ![w] = OSError]
    /\ handles' = [handles EXCEPT ![w] = None]
    /\ locks' = Unlocked(w)
    /\ pc' = [pc EXCEPT ![w] = "raised"]
    /\ UNCHANGED <<ret, prev, args, files>>
    /\ UploadUnchanged

NextUpload ==
    \E w \in Writers :
        \/ CallSave(w)
        \/ Acquire(w)
        \/ OpenTmp(w)
        \/ WriteByte(w)
        \/ Replace(w)
        \/ Return(w)
        \/ LockFails(w)
        \/ WriteFails(w)

SpecUpload == InitUpload /\ [][NextUpload]_vars

----------------------------------------------------------------------------
(* Properties: concurrent uploads *)

Started(w) == pc[w] # "idle"

\* between the acquisition of the lock and its release
InLock(w) == pc[w] \in {"locked", "writing", "replaced"}

\* the contents of the calls begun so far that have path as their target
ContentsFor(path) == {args[u].content : u \in {v \in Writers : Started(v) /\ Target(args[v]) = path}}

\* path is where another call, already begun, puts its temporary file
TmpOfAnother(w, path) ==
    \E u \in Writers \ {w} : Started(u) /\ TmpPath(Target(args[u])) = path

\* no two calls are inside the lock with the same temporary file
WritersSerialized ==
    \A w, u \in Writers :
        w # u /\ InLock(w) /\ InLock(u) =>
            TmpPath(Target(args[w])) # TmpPath(Target(args[u]))

\* C21: under every interleaving of calls the lock lets one call at a time
\* write the temporary file of a target, and the target of every call is at
\* each moment absent or holds the whole content of one of the calls that
\* target it, never a part of it.
C21_TargetAbsentOrComplete ==
    /\ WritersSerialized
    /\ \A w \in Writers :
          Started(w) /\ Exists(files, Target(args[w])) =>
              files[Target(args[w])] \in ContentsFor(Target(args[w]))

\* what the code gives: the same, for the targets that are not the temporary
\* file of another call
C21_CompleteUnlessTmpOfAnother ==
    /\ WritersSerialized
    /\ \A w \in Writers :
          /\ Started(w)
          /\ Exists(files, Target(args[w]))
          /\ ~TmpOfAnother(w, Target(args[w]))
          => files[Target(args[w])] \in ContentsFor(Target(args[w]))

\* a call has returned its target, and the file there has since been emptied
\* by another call that uses the same path as its temporary file
C21_ReturnedTargetEmptied ==
    \E w \in Writers :
        /\ pc[w] = "done"
        /\ prev[w].target = Some(args[w].content)
        /\ Exists(files, ret[w])
        /\ files[ret[w]] = <<>>
        /\ calls = <<>>

\* two calls for the same target: one waits for the lock the other holds
C21_SecondWriterWaits ==
    \E w, u \in Writers :
        /\ w # u
        /\ pc[w] = "writing" /\ handles[w].written = 1
        /\ pc[u] = "acquire"
        /\ Target(args[u]) = Target(args[w])
        /\ ~ENABLED Acquire(u)

\* C22: a call in which acquiring the lock or writing fails raises FileIOError
\* and nothing else, and has not put its content in the target.
C22_RaisesFileIOError ==
    \A w \in Writers :
        pc[w] = "raised" =>
            /\ exc[w].type = "FileIOError"
            /\ ret[w] = None

\* what the code does: the error of the operating system leaves the function
C22_RaisesOSError ==
    \A w \in Writers :
        pc[w] = "raised" =>
            /\ exc[w] = OSError
            /\ ret[w] = None
            /\ \A l \in locks : l.owner # w

\* the file at path, if any
FileAt(fs, path) == IF Exists(fs, path) THEN Some(fs[path]) ELSE Nothing

\* no step of a call other than its os.replace changes the file at its target
C22_TargetUntouchedBeforeReplace ==
    [][\A w \in Writers :
          /\ Started(w)
          /\ pc[w] # pc'[w] \/ handles[w] # handles'[w]
          /\ pc'[w] # "replaced"
          => FileAt(files', Target(args[w])) = FileAt(files, Target(args[w]))]_vars

\* the write of a second upload of a stored file failed: OSError is raised, the
\* file stored before is whole, the temporary file is left behind
C22_WriteFailedTargetKept ==
    \E w, u \in Writers :
        /\ pc[w] = "raised" /\ exc[w] = OSError
        /\ calls = <<[writer |-> w, failed |-> "write"]>>
        /\ pc[u] = "done" /\ ret[u] = Target(args[w])
        /\ FileAt(files, Target(args[w])) = Some(args[w].content)
        /\ Exists(files, TmpPath(Target(args[w])))

\* the lock could not be acquired
C22_LockFailed ==
    \E w \in Writers :
        /\ pc[w] = "raised" /\ exc[w] = OSError
        /\ calls = <<[writer |-> w, failed |-> "lock"]>>

\* the first twelve characters of the SHA-256 digest of the content
Digest12(content) == SubSeq(file_sha256(content), 1, 12)

C30_WitnessTwoContents ==
    \E w, u \in Writers :
        /\ pc[w] = "done" /\ pc[u] = "done"
        /\ args[u].filename = args[w].filename
        /\ args[u].content # args[w].content
        /\ ret[u] # ret[w]
        /\ prev[w].alone /\ prev[u].alone

====
